---- MODULE Spec2Model ----
(***************************************************************************)
(* Model of the AI-Middleware web application: the Message Constructor     *)
(* column store (select, reorder, search, paginate), the template schema   *)
(* and template persistence, the file-record routes, the folder routes,    *)
(* the authentication middleware, the file list and file content routes,   *)
(* the AuthProvider and the FileUploader.                                  *)
(***************************************************************************)
EXTENDS Integers, Sequences, FiniteSets, TLC

(***************************************************************************)
(* Bounds of the model.                                                    *)
(***************************************************************************)
MaxColumns == 3
MaxItemsPerPage == 2
MaxSchemaColumns == 1
MaxFiles == 2
MaxFolders == 3
MaxTemplates == 1
MaxModalSaves == 1
MaxListedFiles == 2
MaxPage == 3
MaxPageSize == 2
MaxSessionFetches == 6
MaxLines == 2
MaxClientFiles == 2
MaxSelection == 2
MaxUploadRecords == 1

(***************************************************************************)
(* State.                                                                  *)
(***************************************************************************)
\* The Message Constructor store and the component state around it.
VARIABLES columns, introduction, conclusion, searchQuery, debouncedSearchQuery,
          currentPage, itemsPerPage, isDragging, activeId, mcLastOp

mcVars == <<columns, introduction, conclusion, searchQuery, debouncedSearchQuery,
            currentPage, itemsPerPage, isDragging, activeId, mcLastOp>>

\* A value on its way through the template config schema.
VARIABLES rawConfig, parsedConfig, parseRound

schemaVars == <<rawConfig, parsedConfig, parseRound>>

\* The files table, and the last request to a file route with its response.
VARIABLES files, fileRequest, fileResponse

fileVars == <<files, fileRequest, fileResponse>>

\* The template_folders table, and the last request to the folder route with
\* its response.
VARIABLES template_folders, folderRequest, folderResponse

folderVars == <<template_folders, folderRequest, folderResponse>>

\* The message_templates table with the last request to the save route and its
\* response, and the template store of the client.
VARIABLES message_templates, templateRequest, templateResponse, currentTemplate, storeError

templateVars == <<message_templates, templateRequest, templateResponse, currentTemplate,
                  storeError>>

\* The Create Message modal.
VARIABLES fileContent, templateConfig, templateName, selectedFolderId, modalOutcome

modalVars == <<fileContent, templateConfig, templateName, selectedFolderId, modalOutcome>>

\* The last request seen by the authentication middleware with its response.
VARIABLES mwRequest, mwResponse

middlewareVars == <<mwRequest, mwResponse>>

\* The last request to GET /api/files with its response.
VARIABLES listRequest, listResponse

listVars == <<listRequest, listResponse>>

\* The AuthProvider: its state, its ref, the number of requests it has sent to
\* /api/auth/session, the call that awaits a response, and the last operation.
VARIABLES authUser, authSession, isLoading, fetchFailed, hasAttemptedFetch,
          sessionFetches, authPending, authLastOp

authVars == <<authUser, authSession, isLoading, fetchFailed, hasAttemptedFetch,
              sessionFetches, authPending, authLastOp>>

\* The object stored in S3 for the file file-1, and the last request to the
\* file content route with its response.
VARIABLES s3Object, contentRequest, contentResponse

contentVars == <<s3Object, contentRequest, contentResponse>>

\* The FileUploader: its multiple prop, its list of files (the state the
\* component calls files), the number of client ids handed out, the calls of
\* uploadFile that have not ended, the requests sent per selected file, and
\* the last operation.
VARIABLES multiple, uploaderFiles, uploaderNextId, inFlight, urlRequested, s3Put,
          uploadLastOp

uploaderVars == <<multiple, uploaderFiles, uploaderNextId, inFlight, urlRequested, s3Put,
                  uploadLastOp>>

\* The last request to GET /api/folders, with the rows its query returned, and
\* its response.
VARIABLES treeRequest, treeResponse

treeVars == <<treeRequest, treeResponse>>

\* The routes and client components besides the constructor and the templates.
laterVars == <<middlewareVars, listVars, authVars, contentVars, uploaderVars, treeVars>>

vars == <<mcVars, schemaVars, fileVars, folderVars, templateVars, modalVars, laterVars>>

\* What the actions of one part leave alone.
otherThanMC == <<schemaVars, fileVars, folderVars, templateVars, modalVars, laterVars>>
otherThanSchema == <<mcVars, fileVars, folderVars, templateVars, modalVars, laterVars>>
otherThanFiles == <<mcVars, schemaVars, folderVars, templateVars, modalVars, laterVars>>
otherThanFolders == <<mcVars, schemaVars, fileVars, templateVars, modalVars, laterVars>>
otherThanTemplates == <<mcVars, schemaVars, fileVars, folderVars, modalVars, laterVars>>
otherThanModal == <<schemaVars, fileVars, folderVars, currentTemplate, storeError, laterVars>>
otherThanMiddleware ==
  <<mcVars, schemaVars, fileVars, folderVars, templateVars, modalVars, listVars, authVars,
    contentVars, uploaderVars, treeVars>>
otherThanList ==
  <<mcVars, schemaVars, files, fileRequest, fileResponse, folderVars, templateVars,
    modalVars, middlewareVars, authVars, contentVars, uploaderVars, treeVars>>
otherThanAuth ==
  <<mcVars, schemaVars, fileVars, folderVars, templateVars, modalVars, middlewareVars,
    listVars, contentVars, uploaderVars, treeVars>>
otherThanContent ==
  <<mcVars, schemaVars, fileVars, folderVars, templateVars, modalVars, middlewareVars,
    listVars, authVars, s3Object, uploaderVars, treeVars>>
otherThanUploader ==
  <<mcVars, schemaVars, folderVars, templateVars, modalVars, middlewareVars, listVars,
    authVars, contentVars, treeVars>>
otherThanTree ==
  <<mcVars, schemaVars, fileVars, folderVars, templateVars, modalVars, middlewareVars,
    listVars, authVars, contentVars, uploaderVars>>

(***************************************************************************)
(* Generic helpers: JavaScript array primitives.                           *)
(***************************************************************************)
Min(a, b) == IF a < b THEN a ELSE b
Max(a, b) == IF a > b THEN a ELSE b

\* Array.prototype.slice(start, end): negative indices count from the end,
\* both ends are clamped to the array.  Indices are 0-based as in the code.
Slice(s, start, end) ==
  LET n  == Len(s)
      rs == IF start < 0 THEN Max(n + start, 0) ELSE Min(start, n)
      re == IF end < 0 THEN Max(n + end, 0) ELSE Min(end, n)
  IN  IF rs < re THEN SubSeq(s, rs + 1, re) ELSE <<>>

\* Array.prototype.findIndex with a predicate on the id: 0-based, -1 if absent.
FindIndexById(s, id) ==
  IF \E i \in 1..Len(s) : s[i].id = id
    THEN (CHOOSE i \in 1..Len(s) :
            s[i].id = id /\ \A j \in 1..(i - 1) : s[j].id # id) - 1
    ELSE -1

\* splice(index, 1): remove the element at the 0-based index.
SpliceRemove(s, index) ==
  IF index < 0 \/ index >= Len(s) THEN s
  ELSE SubSeq(s, 1, index) \o SubSeq(s, index + 2, Len(s))

\* splice(index, 0, item): insert before the 0-based index (clamped).
SpliceInsert(s, index, item) ==
  LET k == Min(Max(index, 0), Len(s))
  IN  SubSeq(s, 1, k) \o <<item>> \o SubSeq(s, k + 1, Len(s))

\* Math.ceil(a / b) for a >= 0, b > 0.
Ceil(a, b) == (a + b - 1) \div b

(***************************************************************************)
(* Strings that are inspected character by character are sequences of      *)
(* one-character strings.                                                  *)
(***************************************************************************)
toLowerCaseChar(c) ==
  IF c = "A" THEN "a" ELSE IF c = "B" THEN "b" ELSE IF c = "C" THEN "c"
  ELSE IF c = "S" THEN "s" ELSE IF c = "V" THEN "v" ELSE c

toLowerCase(s) == [i \in 1..Len(s) |-> toLowerCaseChar(s[i])]

\* String.prototype.includes: some position at which the needle matches.
includes(s, needle) ==
  \E k \in 0..(Len(s) - Len(needle)) : SubSeq(s, k + 1, k + Len(needle)) = needle

(***************************************************************************)
(* Message Constructor store.                                              *)
(***************************************************************************)
NoId == "null"
NoOrder == -1

ColumnId(index) == IF index = 0 THEN "col-0"
                   ELSE IF index = 1 THEN "col-1"
                   ELSE IF index = 2 THEN "col-2"
                   ELSE IF index = 3 THEN "col-3"
                   ELSE "col-4"

ColumnIds == {ColumnId(i) : i \in 0..(MaxColumns - 1)}
UnknownColumnId == "col-x"

NamePool == {<<"A", "b">>, <<"b", "a">>}
QueryPool == {<<>>, <<"a">>, <<"B">>, <<"a", "B">>, <<"b", "b">>}
TextPool == {"", "Hello"}
AffixPool == {"", "Name: "}

DefaultItemsPerPage == 25
ItemsPerPageValues == (1..MaxItemsPerPage) \cup {DefaultItemsPerPage}

\* The columns handed to the component (the mockColumns prop): ids col-0..,
\* a name each, not selected, and either no order or an explicit one.
MockColumnsWith(names, explicitOrder) ==
  [i \in 1..Len(names) |->
     [id |-> ColumnId(i - 1), name |-> names[i], selected |-> FALSE,
      order |-> IF explicitOrder THEN Len(names) - i ELSE NoOrder,
      preface |-> "", closing |-> ""]]

MockColumnLists ==
  {MockColumnsWith(names, eo) :
     names \in UNION {[1..n -> NamePool] : n \in 0..MaxColumns},
     eo \in BOOLEAN}

\* setColumns: order defaults to the index (0-based) when missing.
setColumns(cols) ==
  [i \in 1..Len(cols) |->
     [cols[i] EXCEPT !.order = IF cols[i].order = NoOrder THEN i - 1 ELSE cols[i].order]]

\* Stable sort by order ([...columns].sort((a, b) => a.order - b.order)).
RECURSIVE InsertByOrder(_, _)
InsertByOrder(sorted, col) ==
  IF sorted = <<>> THEN <<col>>
  ELSE IF sorted[Len(sorted)].order <= col.order THEN Append(sorted, col)
  ELSE Append(InsertByOrder(SubSeq(sorted, 1, Len(sorted) - 1), col),
              sorted[Len(sorted)])

RECURSIVE SortByOrder(_)
SortByOrder(cols) ==
  IF cols = <<>> THEN <<>>
  ELSE InsertByOrder(SortByOrder(SubSeq(cols, 1, Len(cols) - 1)), cols[Len(cols)])

\* Variant: the query is not lower-cased.
MatchesQueryCaseSensitive(col, query) == includes(toLowerCase(col.name), query)

MatchesQuery(col, query) == includes(toLowerCase(col.name), toLowerCase(query))

\* MessageConstructor: sort by order, then filter on the debounced query.
sortedAndFilteredColumns(cols, query) ==
  SelectSeq(SortByOrder(cols), LAMBDA col : MatchesQuery(col, query))

\* CSVMessageConstructor: filter on the debounced query.
filteredColumns(cols, query) ==
  SelectSeq(cols, LAMBDA col : MatchesQuery(col, query))

\* Variant: the page number is taken as 0-based.
paginatedColumnsZeroBased(filtered, page, perPage) ==
  LET start == page * perPage
  IN  Slice(filtered, start, start + perPage)

\* The page shown for a page number.
paginatedColumns(filtered, page, perPage) ==
  LET start == (page - 1) * perPage
  IN  Slice(filtered, start, start + perPage)

totalPages(filtered, perPage) == Ceil(Len(filtered), perPage)

selectedColumns(cols) == SelectSeq(cols, LAMBDA col : col.selected)

\* Variant: the insertion index is shifted after the removal.
reorderColumnsShifted(cols, activeIdArg, overIdArg) ==
  LET oldIndex == FindIndexById(cols, activeIdArg)
      newIndex == FindIndexById(cols, overIdArg)
  IN  IF oldIndex = -1 \/ newIndex = -1 THEN cols
      ELSE LET movedColumn == cols[oldIndex + 1]
               target == IF oldIndex < newIndex THEN newIndex - 1 ELSE newIndex
               newColumns == SpliceInsert(SpliceRemove(cols, oldIndex), target, movedColumn)
           IN  [i \in 1..Len(newColumns) |-> [newColumns[i] EXCEPT !.order = i - 1]]

\* reorderColumns of the store.
reorderColumns(cols, activeIdArg, overIdArg) ==
  LET oldIndex == FindIndexById(cols, activeIdArg)
      newIndex == FindIndexById(cols, overIdArg)
  IN  IF oldIndex = -1 \/ newIndex = -1 THEN cols
      ELSE LET movedColumn == cols[oldIndex + 1]
               newColumns == SpliceInsert(SpliceRemove(cols, oldIndex), newIndex, movedColumn)
           IN  [i \in 1..Len(newColumns) |-> [newColumns[i] EXCEPT !.order = i - 1]]

\* toggleColumnSelection of the store.
toggleColumnSelection(cols, columnId) ==
  [i \in 1..Len(cols) |->
     IF cols[i].id = columnId THEN [cols[i] EXCEPT !.selected = ~@] ELSE cols[i]]

\* updateColumnConfig of the store, for an update of one key.
updateColumnConfig(cols, columnId, updates) ==
  [i \in 1..Len(cols) |->
     IF cols[i].id = columnId THEN [cols[i] EXCEPT ![updates.key] = updates.value]
     ELSE cols[i]]

\* selectAllColumns of the store.
selectAllColumns(cols, selected) ==
  [i \in 1..Len(cols) |-> [cols[i] EXCEPT !.selected = selected]]

\* A string as a whole, from its characters.
RECURSIVE Join(_)
Join(chars) == IF chars = <<>> THEN "" ELSE chars[1] \o Join(Tail(chars))

MCInit ==
  /\ columns = <<>>
  /\ introduction = ""
  /\ conclusion = ""
  /\ searchQuery = <<>>
  /\ debouncedSearchQuery = <<>>
  /\ currentPage = 1
  /\ isDragging = FALSE
  /\ activeId = NoId
  /\ mcLastOp = [op |-> "init", activeId |-> NoId, overId |-> NoId]

NoOp(name) == [op |-> name, activeId |-> NoId, overId |-> NoId]

\* The effect that initialises the store from the mockColumns prop.
InitializeColumns ==
  /\ \E mock \in MockColumnLists : columns' = setColumns(mock)
  /\ mcLastOp' = NoOp("setColumns")
  /\ UNCHANGED <<introduction, conclusion, searchQuery, debouncedSearchQuery,
                 currentPage, itemsPerPage, isDragging, activeId>>
  /\ UNCHANGED otherThanMC

\* The ids rendered in the sortable list of the current page.
DisplayedIds ==
  LET page == paginatedColumns(sortedAndFilteredColumns(columns, debouncedSearchQuery),
                               currentPage, itemsPerPage)
  IN  {page[i].id : i \in 1..Len(page)}

handleDragStart ==
  /\ activeId = NoId
  /\ \E id \in DisplayedIds : activeId' = id
  /\ isDragging' = TRUE
  /\ mcLastOp' = NoOp("handleDragStart")
  /\ UNCHANGED <<columns, introduction, conclusion, searchQuery, debouncedSearchQuery,
                 currentPage, itemsPerPage>>
  /\ UNCHANGED otherThanMC

handleDragEnd ==
  /\ activeId # NoId
  /\ \E over \in DisplayedIds \cup {NoId} :
       /\ columns' = IF over # NoId /\ activeId # over
                       THEN reorderColumns(columns, activeId, over)
                       ELSE columns
       /\ mcLastOp' = IF over # NoId /\ activeId # over
                        THEN [op |-> "reorderColumns", activeId |-> activeId, overId |-> over]
                        ELSE NoOp("handleDragEnd")
  /\ activeId' = NoId
  /\ isDragging' = FALSE
  /\ UNCHANGED <<introduction, conclusion, searchQuery, debouncedSearchQuery,
                 currentPage, itemsPerPage>>
  /\ UNCHANGED otherThanMC

handleDragCancel ==
  /\ activeId # NoId
  /\ activeId' = NoId
  /\ isDragging' = FALSE
  /\ mcLastOp' = NoOp("handleDragCancel")
  /\ UNCHANGED <<columns, introduction, conclusion, searchQuery, debouncedSearchQuery,
                 currentPage, itemsPerPage>>
  /\ UNCHANGED otherThanMC

\* The store action called directly, with ids that may be absent from the list.
ReorderColumns ==
  /\ \E a \in ColumnIds \cup {UnknownColumnId}, o \in ColumnIds \cup {UnknownColumnId} :
       /\ columns' = reorderColumns(columns, a, o)
       /\ mcLastOp' = [op |-> "reorderColumns", activeId |-> a, overId |-> o]
  /\ UNCHANGED <<introduction, conclusion, searchQuery, debouncedSearchQuery,
                 currentPage, itemsPerPage, isDragging, activeId>>
  /\ UNCHANGED otherThanMC

setSearchQuery ==
  /\ \E query \in QueryPool : searchQuery' = query
  /\ mcLastOp' = NoOp("setSearchQuery")
  /\ UNCHANGED <<columns, introduction, conclusion, debouncedSearchQuery,
                 currentPage, itemsPerPage, isDragging, activeId>>
  /\ UNCHANGED otherThanMC

\* useDebounce: the timer fires and copies the query.
DebounceTimer ==
  /\ debouncedSearchQuery # searchQuery
  /\ debouncedSearchQuery' = searchQuery
  /\ mcLastOp' = NoOp("debounce")
  /\ UNCHANGED <<columns, introduction, conclusion, searchQuery,
                 currentPage, itemsPerPage, isDragging, activeId>>
  /\ UNCHANGED otherThanMC

CurrentTotalPages ==
  totalPages(sortedAndFilteredColumns(columns, debouncedSearchQuery), itemsPerPage)

\* The Previous button (disabled on page 1).
PreviousPage ==
  /\ currentPage # 1
  /\ currentPage' = Max(1, currentPage - 1)
  /\ mcLastOp' = NoOp("setCurrentPage")
  /\ UNCHANGED <<columns, introduction, conclusion, searchQuery, debouncedSearchQuery,
                 itemsPerPage, isDragging, activeId>>
  /\ UNCHANGED otherThanMC

\* The Next button (disabled when currentPage equals totalPages).
NextPage ==
  /\ currentPage # CurrentTotalPages
  /\ currentPage' = Min(CurrentTotalPages, currentPage + 1)
  /\ mcLastOp' = NoOp("setCurrentPage")
  /\ UNCHANGED <<columns, introduction, conclusion, searchQuery, debouncedSearchQuery,
                 itemsPerPage, isDragging, activeId>>
  /\ UNCHANGED otherThanMC

(***************************************************************************)
(* Template schema (zod).  A string-valued field holds a string or one of  *)
(* the markers below; an array-valued field is a record with a kind.       *)
(***************************************************************************)
Absent == "<absent>"            \* the key is missing
Undefined == "<undefined>"      \* the key is present with the value undefined
NotAString == "<not-a-string>"  \* a value of another type
Invalid == "<invalid>"          \* the validator rejected the value

ArrayOf(items) == [kind |-> "array", items |-> items]
ArrayAbsent == [kind |-> "absent", items |-> <<>>]
ArrayUndefined == [kind |-> "undefined", items |-> <<>>]
ArrayInvalid == [kind |-> "invalid", items |-> <<>>]

\* z.string().min(n)
zStringMin(x, n) ==
  IF x \in {Absent, Undefined, NotAString, Invalid} THEN Invalid
  ELSE IF Len(x) < n THEN Invalid ELSE x

\* Variant: the default is left out.
zStringWithoutDefault(x) ==
  IF x \in {NotAString, Invalid} THEN Invalid ELSE x

\* z.string().default("") and z.string().optional().default("")
zStringDefault(x) ==
  IF x \in {Absent, Undefined} THEN ""
  ELSE IF x \in {NotAString, Invalid} THEN Invalid ELSE x

\* z.enum([...])
zEnum(x, allowed) == IF x \in allowed THEN x ELSE Invalid

TemplateTypes == {"csv", "txt"}
ValidationRules == {"trim", "skipBlanks"}

InvalidColumn ==
  [kind |-> "invalid", name |-> Invalid, preface |-> Invalid, closing |-> Invalid,
   id |-> Absent]

\* columnSchema.parse: unknown keys (id, selected, order) are stripped.
columnSchema(col) ==
  LET name == zStringMin(col.name, 1)
      preface == zStringDefault(col.preface)
      closing == zStringDefault(col.closing)
  IN  IF col.kind # "object" \/ Invalid \in {name, preface, closing} THEN InvalidColumn
      ELSE [kind |-> "object", name |-> name, preface |-> preface, closing |-> closing,
            id |-> Absent]

\* z.array(columnSchema)
zArrayOfColumns(arr) ==
  IF arr.kind # "array" THEN ArrayInvalid
  ELSE LET parsed == [i \in 1..Len(arr.items) |-> columnSchema(arr.items[i])]
       IN  IF \E i \in 1..Len(parsed) : parsed[i].kind = "invalid" THEN ArrayInvalid
           ELSE ArrayOf(parsed)

\* z.array(z.enum(["trim", "skipBlanks"])).default([])
zRules(arr) ==
  IF arr.kind \in {"absent", "undefined"} THEN ArrayOf(<<>>)
  ELSE IF arr.kind # "array" THEN ArrayInvalid
  ELSE IF \E i \in 1..Len(arr.items) : arr.items[i] \notin ValidationRules THEN ArrayInvalid
  ELSE arr

\* z.array(z.string()).optional()
zAllowedValues(arr) ==
  IF arr.kind \in {"absent", "undefined"} THEN arr
  ELSE IF arr.kind # "array" THEN ArrayInvalid
  ELSE IF \E i \in 1..Len(arr.items) : arr.items[i] \in {NotAString, Undefined} THEN ArrayInvalid
  ELSE arr

InvalidValidation ==
  [kind |-> "invalid", rules |-> ArrayInvalid, allowedValues |-> ArrayInvalid,
   errorMessage |-> Invalid]

\* validationSchema.parse
validationSchema(v) ==
  LET rules == zRules(v.rules)
      allowedValues == zAllowedValues(v.allowedValues)
      errorMessage == zStringDefault(v.errorMessage)
  IN  IF \/ v.kind # "object"
         \/ rules.kind = "invalid"
         \/ allowedValues.kind = "invalid"
         \/ errorMessage = Invalid
        THEN InvalidValidation
        ELSE [kind |-> "object", rules |-> rules, allowedValues |-> allowedValues,
              errorMessage |-> errorMessage]

ValidationDefault ==
  [kind |-> "object", rules |-> ArrayOf(<<>>), allowedValues |-> ArrayAbsent,
   errorMessage |-> ""]

\* validationSchema.optional().default({ rules: [], errorMessage: "" })
zValidationDefault(v) ==
  IF v.kind \in {"absent", "undefined"} THEN validationSchema(ValidationDefault)
  ELSE validationSchema(v)

ParseFailure == [ok |-> FALSE]

\* templateConfigSchema.parse: unknown keys (firstRow) are stripped.
templateConfigSchema(cfg) ==
  LET type == zEnum(cfg.type, TemplateTypes)
      intro == zStringDefault(cfg.intro)
      cols == zArrayOfColumns(cfg.columns)
      concl == zStringDefault(cfg.conclusion)
      validation == zValidationDefault(cfg.validation)
  IN  IF \/ Invalid \in {type, intro, concl}
         \/ cols.kind = "invalid"
         \/ validation.kind = "invalid"
        THEN ParseFailure
        ELSE [ok |-> TRUE,
              value |-> [type |-> type, intro |-> intro, columns |-> cols,
                         conclusion |-> concl, validation |-> validation,
                         firstRow |-> Absent]]

\* JSON.parse(JSON.stringify(value)): keys whose value is undefined are dropped.
JSONString(x) == IF x = Undefined THEN Absent ELSE x
JSONArray(arr) == IF arr.kind = "undefined" THEN ArrayAbsent ELSE arr

JSONColumn(col) ==
  [col EXCEPT !.name = JSONString(@), !.preface = JSONString(@),
              !.closing = JSONString(@), !.id = JSONString(@)]

JSONColumns(arr) ==
  IF arr.kind = "undefined" THEN ArrayAbsent
  ELSE [arr EXCEPT !.items = [i \in 1..Len(arr.items) |-> JSONColumn(arr.items[i])]]

JSONValidation(v) ==
  IF v.kind = "undefined"
    THEN [kind |-> "absent", rules |-> ArrayAbsent, allowedValues |-> ArrayAbsent,
          errorMessage |-> Absent]
    ELSE [v EXCEPT !.rules = JSONArray(@), !.allowedValues = JSONArray(@),
                   !.errorMessage = JSONString(@)]

JSONConfig(cfg) ==
  [type |-> JSONString(cfg.type), intro |-> JSONString(cfg.intro),
   columns |-> JSONColumns(cfg.columns), conclusion |-> JSONString(cfg.conclusion),
   validation |-> JSONValidation(cfg.validation), firstRow |-> JSONString(cfg.firstRow)]

\* Request bodies and in-memory values handed to the schema.
RawColumns ==
  [kind : {"object"}, name : {Absent, "", "Age"}, preface : {Absent, Undefined, "Name: "},
   closing : {Absent, "."}, id : {Absent, "col-0"}]

RawColumnArrays ==
  {ArrayAbsent} \cup
  {ArrayOf(items) : items \in UNION {[1..n -> RawColumns] : n \in 0..MaxSchemaColumns}}

RawValidations ==
  {[kind |-> k, rules |-> ArrayAbsent, allowedValues |-> ArrayAbsent, errorMessage |-> Absent] :
     k \in {"absent", "undefined"}}
  \cup
  [kind : {"object"},
   rules : {ArrayAbsent, ArrayOf(<<"trim">>), ArrayOf(<<"bogus">>)},
   allowedValues : {ArrayAbsent, ArrayUndefined, ArrayOf(<<"x">>)},
   errorMessage : {Absent, "bad value"}]

RawConfigs ==
  [type : {"csv", "txt", "xml"}, intro : {Absent, "Hello", NotAString},
   columns : RawColumnArrays, conclusion : {Undefined, "Bye"},
   validation : RawValidations, firstRow : {Absent, "row"}]

SchemaIdle ==
  /\ rawConfig = [type |-> "csv", intro |-> Absent, columns |-> ArrayOf(<<>>),
                  conclusion |-> "Bye", validation |-> ValidationDefault,
                  firstRow |-> Absent]
  /\ parsedConfig = ParseFailure
  /\ parseRound = 0

SchemaInit ==
  /\ rawConfig \in RawConfigs
  /\ parsedConfig = ParseFailure
  /\ parseRound = 0

\* A value is validated.
ParseConfig ==
  /\ parseRound = 0
  /\ parsedConfig' = templateConfigSchema(rawConfig)
  /\ parseRound' = 1
  /\ UNCHANGED rawConfig
  /\ UNCHANGED otherThanSchema

\* The accepted result is serialized (stored, sent) and validated again.
ReparseConfig ==
  /\ parseRound = 1
  /\ parsedConfig.ok
  /\ rawConfig' = JSONConfig(parsedConfig.value)
  /\ parsedConfig' = templateConfigSchema(rawConfig')
  /\ parseRound' = 2
  /\ UNCHANGED otherThanSchema

(***************************************************************************)
(* Sessions and identifiers.                                               *)
(***************************************************************************)
Users == {"u-1", "u-2"}
NoSession == "<no session>"
Null == "null"

FileId(n) == IF n = 1 THEN "file-1" ELSE IF n = 2 THEN "file-2"
             ELSE IF n = 3 THEN "file-3" ELSE "file-4"
FileIds == {FileId(n) : n \in 1..MaxFiles}

FolderId(n) == IF n = 1 THEN "f-1" ELSE IF n = 2 THEN "f-2"
               ELSE IF n = 3 THEN "f-3" ELSE IF n = 4 THEN "f-4" ELSE "f-5"
FolderIds == {FolderId(n) : n \in 1..MaxFolders}
MissingFolderId == "f-0"
NotAUuid == "not-a-uuid"

TemplateId(n) == IF n = 1 THEN "t-1" ELSE IF n = 2 THEN "t-2"
                 ELSE IF n = 3 THEN "t-3" ELSE "t-4"
TemplateIds == {TemplateId(n) : n \in 1..MaxTemplates}

\* z.string().uuid()
IsUuid(x) == x \in FolderIds \cup TemplateIds \cup {MissingFolderId}

(***************************************************************************)
(* POST /api/files/upload-url and PATCH /api/files/status.                 *)
(***************************************************************************)
\* A prefix is its path segments and whether it ends with a slash.
PrefixPool ==
  {[segs |-> <<"uploads">>, slash |-> FALSE],
   [segs |-> <<"private">>, slash |-> TRUE]}
DefaultPrefix == [segs |-> <<"uploads">>, slash |-> TRUE]
ALLOWED_PREFIXES == {<<"uploads">>, <<"processed">>}

FilenamePool == {Absent, "data.csv"}
ContentTypePool == {Absent, "text/csv"}
PatchStatusPool == {Absent, "uploading", "uploaded", "failed", "processing"}
ErrorMessagePool == {Absent, "Failed to upload to S3"}
validStatuses == {"uploading", "uploaded", "failed"}

\* prefix.endsWith('/') ? prefix : `${prefix}/`
sanitizedPrefix(prefix) == [prefix EXCEPT !.slash = TRUE]

\* `${sanitizedPrefix}${userId}/${safeFilename}`; the timestamp and random id
\* of the safe filename make the name unique.
S3Key(prefix, userId, filename, unique) ==
  sanitizedPrefix(prefix).segs \o <<userId, <<filename, unique>>>>

\* Every key passes.
KeyStartsWithAnything(key) == Len(key) >= 0

\* key.startsWith(p) for a prefix p that is one segment and a slash.
KeyStartsWithAllowedPrefix(key) == \E p \in ALLOWED_PREFIXES : SubSeq(key, 1, Len(p)) = p

NoFileResponse == [status |-> 0, success |-> FALSE, fileId |-> Null, key |-> <<>>, url |-> FALSE]
FileError(status) == [NoFileResponse EXCEPT !.status = status]
\* The body of a request to the upload-url route; the other requests carry none.
NoUploadBody == [filename |-> Absent, contentType |-> Absent, prefix |-> DefaultPrefix]
NoFileRequest == [route |-> "none", session |-> NoSession, fileId |-> Absent,
                  body |-> NoUploadBody]

FilesInit ==
  /\ files = << >>
  /\ fileRequest = NoFileRequest
  /\ fileResponse = NoFileResponse

\* The status a new record is inserted with.
InitialFileStatus == "uploading"

UploadUrlResult(session, filename, contentType, prefix, signingFails, insertFails) ==
  LET userId == session
      newId == FileId(Cardinality(DOMAIN files) + 1)
      key == S3Key(prefix, userId, filename, Cardinality(DOMAIN files) + 1)
      record == [user_id |-> userId, s3_key |-> key, original_name |-> filename,
                 status |-> InitialFileStatus, error_message |-> Null]
  IN  IF session = NoSession THEN [files |-> files, response |-> FileError(401)]
      ELSE IF filename = Absent \/ contentType = Absent
        THEN [files |-> files, response |-> FileError(400)]
      ELSE IF ~KeyStartsWithAllowedPrefix(key)
        THEN [files |-> files, response |-> FileError(400)]
      ELSE IF signingFails THEN [files |-> files, response |-> FileError(500)]
      ELSE IF insertFails THEN [files |-> files, response |-> FileError(500)]
      ELSE [files |-> [id \in DOMAIN files \cup {newId} |->
                         IF id = newId THEN record ELSE files[id]],
            response |-> [status |-> 200, success |-> TRUE, fileId |-> newId,
                          key |-> key, url |-> TRUE]]

\* POST /api/files/upload-url
PostUploadUrl ==
  /\ Cardinality(DOMAIN files) < MaxFiles
  /\ \E session \in Users \cup {NoSession}, filename \in FilenamePool,
        contentType \in ContentTypePool, prefix \in PrefixPool \cup {DefaultPrefix},
        signingFails \in BOOLEAN, insertFails \in BOOLEAN :
       LET result == UploadUrlResult(session, filename, contentType, prefix,
                                     signingFails, insertFails)
       IN  /\ files' = result.files
           /\ fileResponse' = result.response
           /\ fileRequest' = [route |-> "upload-url", session |-> session, fileId |-> Absent,
                              body |-> [filename |-> filename, contentType |-> contentType,
                                        prefix |-> prefix]]
  /\ UNCHANGED otherThanFiles

\* Variant: the update is not restricted to the caller's rows.
PatchMatchesAnyOwner(session, fileId) == fileId \in DOMAIN files

\* .eq('id', fileId).eq('user_id', session.user.id)
PatchMatches(session, fileId) ==
  fileId \in DOMAIN files /\ files[fileId].user_id = session

StatusPatchResult(session, fileId, status, error_message) ==
  LET updated == [files[fileId] EXCEPT
                    !.status = status,
                    !.error_message = IF error_message # Absent THEN error_message
                                      ELSE IF status = "uploaded" THEN Null
                                      ELSE @]
  IN  IF session = NoSession THEN [files |-> files, response |-> FileError(401)]
      ELSE IF fileId = Absent \/ status = Absent
        THEN [files |-> files, response |-> FileError(400)]
      ELSE IF status \notin validStatuses
        THEN [files |-> files, response |-> FileError(400)]
      ELSE IF ~PatchMatches(session, fileId)
        THEN [files |-> files, response |-> FileError(500)]
      ELSE [files |-> [files EXCEPT ![fileId] = updated],
            response |-> [status |-> 200, success |-> TRUE, fileId |-> fileId,
                          key |-> updated.s3_key, url |-> FALSE]]

\* PATCH /api/files/status
PatchFileStatus ==
  /\ \E session \in Users \cup {NoSession}, fileId \in FileIds \cup {Absent},
        status \in PatchStatusPool, error_message \in ErrorMessagePool :
       LET result == StatusPatchResult(session, fileId, status, error_message)
       IN  /\ files' = result.files
           /\ fileResponse' = result.response
           /\ fileRequest' = [route |-> "status", session |-> session, fileId |-> fileId,
                              body |-> NoUploadBody]
  /\ UNCHANGED otherThanFiles

(***************************************************************************)
(* POST /api/folders.                                                      *)
(***************************************************************************)
TooLongName ==
  "0123456789012345678901234567890123456789012345678901234567890123456789012345678901234567890123456789x"
FolderNamePool == {Absent, "ab", "Reports", TooLongName}
ParentFolderIdPool == {Absent, Null, NotAUuid, MissingFolderId} \cup FolderIds

\* createFolderSchema.parse
createFolderSchemaAccepts(name, parentFolderId) ==
  /\ name # Absent
  /\ Len(name) >= 3
  /\ Len(name) <= 100
  /\ parentFolderId \in {Absent, Null} \/ IsUuid(parentFolderId)

NoFolderResponse == [status |-> 0, success |-> FALSE, folderId |-> Null]
FolderError(status) == [NoFolderResponse EXCEPT !.status = status]
NoFolderRequest == [session |-> NoSession, name |-> Absent, parentFolderId |-> Absent]

FoldersInit ==
  /\ template_folders = << >>
  /\ folderRequest = NoFolderRequest
  /\ folderResponse = NoFolderResponse

\* Variant: the parent is looked up by id alone.
ParentFolderFoundById(userId, parentFolderId) ==
  parentFolderId \in DOMAIN template_folders

\* .eq('id', parentFolderId).eq('user_id', userId).single()
ParentFolderFound(userId, parentFolderId) ==
  /\ parentFolderId \in DOMAIN template_folders
  /\ template_folders[parentFolderId].user_id = userId

CreateFolderResult(session, name, parentFolderId, insertFails) ==
  LET userId == session
      newId == FolderId(Cardinality(DOMAIN template_folders) + 1)
      row == [user_id |-> userId, name |-> name,
              parent_folder_id |-> IF parentFolderId \in {Absent, Null} THEN Null
                                   ELSE parentFolderId]
  IN  IF session = NoSession
        THEN [folders |-> template_folders, response |-> FolderError(401)]
      ELSE IF ~createFolderSchemaAccepts(name, parentFolderId)
        THEN [folders |-> template_folders, response |-> FolderError(400)]
      ELSE IF parentFolderId \notin {Absent, Null} /\ ~ParentFolderFound(userId, parentFolderId)
        THEN [folders |-> template_folders, response |-> FolderError(404)]
      ELSE IF insertFails
        THEN [folders |-> template_folders, response |-> FolderError(500)]
      ELSE [folders |-> [id \in DOMAIN template_folders \cup {newId} |->
                           IF id = newId THEN row ELSE template_folders[id]],
            response |-> [status |-> 200, success |-> TRUE, folderId |-> newId]]

\* POST /api/folders
PostFolder ==
  /\ Cardinality(DOMAIN template_folders) < MaxFolders
  /\ \E session \in Users \cup {NoSession}, name \in FolderNamePool,
        parentFolderId \in ParentFolderIdPool, insertFails \in BOOLEAN :
       LET result == CreateFolderResult(session, name, parentFolderId, insertFails)
       IN  /\ template_folders' = result.folders
           /\ folderResponse' = result.response
           /\ folderRequest' = [session |-> session, name |-> name,
                                parentFolderId |-> parentFolderId]
  /\ UNCHANGED otherThanFolders

(***************************************************************************)
(* Templates: templateSchema, POST /api/templates/save, saveTemplate and   *)
(* the template store.                                                     *)
(***************************************************************************)
\* z.string().optional()
zStringOptional(x) == IF x \in {NotAString, Invalid} THEN Invalid ELSE x

\* z.string().uuid().optional()
zUuidOptional(x) ==
  IF x \in {Absent, Undefined} THEN x ELSE IF IsUuid(x) THEN x ELSE Invalid

\* z.string().uuid().optional().nullable()
zUuidOptionalNullable(x) == IF x = Null THEN Null ELSE zUuidOptional(x)

\* templateSchema.parse
templateSchema(t) ==
  LET id == zUuidOptional(t.id)
      name == zStringMin(t.name, 3)
      description == zStringOptional(t.description)
      type == zEnum(t.type, TemplateTypes)
      config == templateConfigSchema(t.config)
      folderId == zUuidOptionalNullable(t.folderId)
  IN  IF Invalid \in {id, name, description, type, folderId} \/ ~config.ok
        THEN ParseFailure
        ELSE [ok |-> TRUE,
              value |-> [id |-> id, name |-> name, description |-> description,
                         type |-> type, config |-> config.value, folderId |-> folderId]]

\* The id a new row gets from the database.
NewTemplateId == TemplateId(Cardinality(DOMAIN message_templates) + 1)

\* id: id || undefined
UpsertTargetId(id) == IF id \in {Absent, Undefined, ""} THEN NewTemplateId ELSE id

\* .upsert({ id, user_id, folder_id, ...rest })
Upsert(userId, t) ==
  LET target == UpsertTargetId(t.id)
      row == [user_id |-> userId,
              folder_id |-> IF t.folderId \in {Absent, Undefined, Null} THEN Null
                            ELSE t.folderId,
              name |-> t.name, description |-> t.description, type |-> t.type,
              config |-> t.config]
  IN  [id \in DOMAIN message_templates \cup {target} |->
         IF id = target THEN row ELSE message_templates[id]]

NoTemplateResponse == [status |-> 0, success |-> FALSE, templateId |-> Null]
TemplateError(status) == [NoTemplateResponse EXCEPT !.status = status]

\* The folder lookup without the user_id filter.
TemplateFolderFoundById(userId, folderId) == folderId \in DOMAIN template_folders

\* .eq('id', folderId).eq('user_id', userId).single()
TemplateFolderFound(userId, folderId) ==
  /\ folderId \in DOMAIN template_folders
  /\ template_folders[folderId].user_id = userId

\* POST /api/templates/save
TemplateSaveResult(session, requestData, upsertFails) ==
  LET userId == session
      templateData == templateSchema(requestData)
  IN  IF session = NoSession
        THEN [templates |-> message_templates, response |-> TemplateError(401)]
      ELSE IF ~templateData.ok
        THEN [templates |-> message_templates, response |-> TemplateError(400)]
      ELSE IF /\ templateData.value.folderId \notin {Absent, Undefined, Null}
              /\ ~TemplateFolderFound(userId, templateData.value.folderId)
        THEN [templates |-> message_templates, response |-> TemplateError(404)]
      ELSE IF upsertFails
        THEN [templates |-> message_templates, response |-> TemplateError(500)]
      ELSE [templates |-> Upsert(userId, templateData.value),
            response |-> [status |-> 200, success |-> TRUE,
                          templateId |-> UpsertTargetId(templateData.value.id)]]

\* The database can serve the request within the bound on rows.
CanUpsert(id) ==
  UpsertTargetId(id) \in DOMAIN message_templates
    \/ Cardinality(DOMAIN message_templates) < MaxTemplates

DEFAULT_CONFIG ==
  [type |-> "csv", intro |-> "", columns |-> ArrayOf(<<>>), conclusion |-> "",
   validation |-> ValidationDefault, firstRow |-> Absent]

NoTemplate == [id |-> Absent, name |-> Absent, description |-> Absent, type |-> Absent,
               config |-> DEFAULT_CONFIG, folderId |-> Absent]

\* No request has reached the route yet.
NoTemplateRequest == [session |-> NoSession, body |-> NoTemplate]

TemplatesInit ==
  /\ message_templates = << >>
  /\ templateRequest = NoTemplateRequest
  /\ templateResponse = NoTemplateResponse
  /\ currentTemplate = NoTemplate
  /\ storeError = Null

\* Request bodies sent to the route.
RequestConfigs ==
  {[DEFAULT_CONFIG EXCEPT !.type = "txt", !.intro = "Hello"],
   [DEFAULT_CONFIG EXCEPT !.columns = ArrayAbsent]}

RequestTemplates ==
  [id : {Absent, TemplateId(1), NotAUuid}, name : {"ab", "Welcome"},
   description : {Absent}, type : {"csv", "txt", "xml"}, config : RequestConfigs,
   folderId : {Absent, FolderId(1), MissingFolderId}]

PostTemplateSave ==
  /\ \E session \in Users \cup {NoSession}, requestData \in RequestTemplates,
        upsertFails \in BOOLEAN :
       /\ CanUpsert(requestData.id)
       /\ LET result == TemplateSaveResult(session, requestData, upsertFails)
          IN  /\ message_templates' = result.templates
              /\ templateRequest' = [session |-> session, body |-> requestData]
              /\ templateResponse' = result.response
  /\ UNCHANGED <<currentTemplate, storeError>>
  /\ UNCHANGED otherThanTemplates

\* createNewTemplate of the template store
createNewTemplate ==
  /\ \E type \in TemplateTypes :
       currentTemplate' =
         [id |-> Absent, name |-> "New Template", description |-> Absent, type |-> type,
          config |-> [DEFAULT_CONFIG EXCEPT !.type = type], folderId |-> Absent]
  /\ UNCHANGED <<message_templates, templateRequest, templateResponse, storeError>>
  /\ UNCHANGED otherThanTemplates

\* updateTemplateName
updateTemplateName ==
  /\ currentTemplate # NoTemplate
  /\ \E name \in {"ab", "Welcome"} : currentTemplate' = [currentTemplate EXCEPT !.name = name]
  /\ UNCHANGED <<message_templates, templateRequest, templateResponse, storeError>>
  /\ UNCHANGED otherThanTemplates

\* The Partial<TemplateConfig> values handed to updateTemplateConfig.
PartialConfigs ==
  {[key |-> "type", value |-> "csv"], [key |-> "type", value |-> "txt"],
   [key |-> "intro", value |-> "Hello"]}

\* config: { ...currentTemplate.config, ...config }
MergeConfig(config, partial) == [config EXCEPT ![partial.key] = partial.value]

\* updateTemplateConfig
updateTemplateConfig ==
  /\ currentTemplate # NoTemplate
  /\ \E partial \in PartialConfigs :
       currentTemplate' =
         [currentTemplate EXCEPT !.config = MergeConfig(currentTemplate.config, partial)]
  /\ UNCHANGED <<message_templates, templateRequest, templateResponse, storeError>>
  /\ UNCHANGED otherThanTemplates

\* saveTemplate of lib/templates: the id of the saved row, or the error thrown.
SaveTemplateResult(user, template, upsertFails) ==
  LET validated == templateSchema(template)
  IN  IF ~validated.ok
        THEN [templates |-> message_templates, id |-> Null, error |-> "TemplateValidationError"]
      ELSE IF user = NoSession
        THEN [templates |-> message_templates, id |-> Null, error |-> "TemplateSaveError"]
      ELSE IF /\ validated.value.folderId \notin {Absent, Undefined, Null}
              /\ validated.value.folderId \notin DOMAIN template_folders
        THEN [templates |-> message_templates, id |-> Null, error |-> "TemplateSaveError"]
      ELSE IF upsertFails
        THEN [templates |-> message_templates, id |-> Null, error |-> "TemplateSaveError"]
      ELSE [templates |-> Upsert(user, validated.value),
            id |-> UpsertTargetId(validated.value.id), error |-> Null]

\* The user of the browser the store runs in.
StoreUser == "u-1"

\* saveCurrentTemplate of the template store
saveCurrentTemplate ==
  /\ currentTemplate # NoTemplate
  /\ CanUpsert(currentTemplate.id)
  /\ \E user \in {StoreUser, NoSession}, upsertFails \in BOOLEAN :
       LET result == SaveTemplateResult(user, currentTemplate, upsertFails)
       IN  /\ message_templates' = result.templates
           /\ storeError' = result.error
           /\ currentTemplate' = IF result.error = Null
                                   THEN [currentTemplate EXCEPT !.id = result.id]
                                   ELSE currentTemplate
  /\ UNCHANGED <<templateRequest, templateResponse>>
  /\ UNCHANGED otherThanTemplates

(***************************************************************************)
(* Authentication middleware.  Pathnames are sequences of characters.      *)
(***************************************************************************)
startsWith(s, prefix) ==
  Len(prefix) <= Len(s) /\ SubSeq(s, 1, Len(prefix)) = prefix

DashboardPath == <<"/", "d", "a", "s", "h", "b", "o", "a", "r", "d">>
LoginPath == <<"/", "l", "o", "g", "i", "n">>
RegisterPath == <<"/", "r", "e", "g", "i", "s", "t", "e", "r">>
NextAssetsPath == <<"/", "_", "n", "e", "x", "t">>
ApiPath == <<"/", "a", "p", "i">>
AuthCallbackPath == <<"/", "a", "u", "t", "h", "/", "c", "a", "l", "l", "b", "a", "c", "k">>
RootPath == <<"/">>
AboutPath == <<"/", "a", "b", "o", "u", "t">>
DashPath == <<"/", "d", "a", "s", "h">>

PROTECTED_ROUTES ==
  {DashboardPath,
   <<"/", "p", "r", "o", "f", "i", "l", "e">>,
   <<"/", "s", "e", "t", "t", "i", "n", "g", "s">>,
   <<"/", "f", "i", "l", "e", "s">>,
   <<"/", "m", "e", "s", "s", "a", "g", "e", "s">>,
   <<"/", "a", "i", "s">>,
   <<"/", "j", "o", "b", "s">>}

isProtectedRoute(path) == \E route \in PROTECTED_ROUTES : startsWith(path, route)

isPublicAuthRoute(path) == path = LoginPath \/ path = RegisterPath

\* Requested pathnames: a known beginning followed by nothing, more characters
\* of the same segment, a further segment, or a segment with a dot in it.
PathHeads ==
  PROTECTED_ROUTES \cup
  {LoginPath, RegisterPath, NextAssetsPath, ApiPath, AuthCallbackPath, RootPath,
   AboutPath, DashPath}

PathTails == {<<>>, <<"x">>, <<"/", "x">>, <<"/", "x", ".", "y">>}

Pathnames == {head \o tail : head \in PathHeads, tail \in PathTails}

NoMwRequest == [pathname |-> <<>>, session |-> NoSession]

MwNext == [kind |-> "next", pathname |-> <<>>, redirectTo |-> <<>>]

MwRedirect(to, redirectTo) ==
  [kind |-> "redirect", pathname |-> to, redirectTo |-> redirectTo]

MiddlewareInit == mwRequest = NoMwRequest /\ mwResponse = MwNext

\* middleware(req): the response for a pathname and the session of the cookie.
middleware(pathname, session) ==
  LET isAuthenticated == session # NoSession
  IN  IF \/ startsWith(pathname, NextAssetsPath)
         \/ startsWith(pathname, ApiPath)
         \/ includes(pathname, <<".">>)
        THEN MwNext
      ELSE IF startsWith(pathname, AuthCallbackPath) THEN MwNext
      ELSE IF isProtectedRoute(pathname) /\ ~isAuthenticated
        THEN MwRedirect(LoginPath, pathname)
      ELSE IF isAuthenticated /\ isPublicAuthRoute(pathname)
        THEN MwRedirect(DashboardPath, <<>>)
      ELSE MwNext

Middleware ==
  \E pathname \in Pathnames, session \in Users \cup {NoSession} :
    /\ mwRequest' = [pathname |-> pathname, session |-> session]
    /\ mwResponse' = middleware(pathname, session)
    /\ UNCHANGED otherThanMiddleware

(***************************************************************************)
(* GET /api/files.  File names are sequences of characters.                *)
(***************************************************************************)
\* filename.split('.'), last part lower-cased, '' without a dot.
getFileExtension(filename) ==
  LET dots == {i \in 1..Len(filename) : filename[i] = "."}
  IN  IF dots = {} THEN <<>>
      ELSE LET last == CHOOSE i \in dots : \A j \in dots : j <= i
           IN  toLowerCase(SubSeq(filename, last + 1, Len(filename)))

ListedNamePool == {<<"a", ".", "b">>, <<"b", ".", "A">>}
ListedStatusPool == {"uploaded", "failed"}
FilterStatusPool == {Absent, "uploaded"}
FilterTypePool == {Absent, <<"B">>}
SortOrderPool == {"asc", "desc"}

\* The user whose rows the query sees.
ListUser == "u-1"

ListedRecords ==
  [user_id : {ListUser}, s3_key : {<<>>}, original_name : ListedNamePool,
   status : ListedStatusPool, error_message : {Null}]

\* Tables of up to MaxListedFiles records, created in the order of their ids.
ListedTables ==
  UNION {[{FileId(i) : i \in 1..n} -> ListedRecords] : n \in 0..MaxListedFiles}

NoListRequest ==
  [session |-> NoSession, page |-> 1, pageSize |-> 1, sortOrder |-> "desc",
   filterStatus |-> Absent, filterType |-> Absent]

NoListResponse ==
  [status |-> 0, files |-> <<>>, totalCount |-> 0, currentPage |-> 0, totalPages |-> 0]

ListError(status) == [NoListResponse EXCEPT !.status = status]

ListInit == listRequest = NoListRequest /\ listResponse = NoListResponse

\* .from('files').select('*', { count: 'exact' }) with the optional
\* .eq('status', filterStatus): the ids of the rows, in creation order.
ListQuery(filterStatus) ==
  LET n == Cardinality(DOMAIN files)
      all == [i \in 1..n |-> FileId(i)]
  IN  SelectSeq(all, LAMBDA id : filterStatus = Absent \/ files[id].status = filterStatus)

\* .order('created_at', { ascending: sortOrder === 'asc' })
OrderByCreatedAt(ids, sortOrder) ==
  IF sortOrder = "asc" THEN ids ELSE [i \in 1..Len(ids) |-> ids[Len(ids) + 1 - i]]

\* .range(from, to): the rows at the 0-based positions from..to.
Range(ids, from, to) == Slice(ids, from, to + 1)

\* GET /api/files
ListFilesResult(req, queryFails) ==
  LET matching == ListQuery(req.filterStatus)
      totalCount == Len(matching)
      total_pages == Ceil(totalCount, req.pageSize)
      pageRows == Range(OrderByCreatedAt(matching, req.sortOrder),
                        (req.page - 1) * req.pageSize, req.page * req.pageSize - 1)
      filteredFiles ==
        SelectSeq(pageRows,
                  LAMBDA id : req.filterType = Absent
                                \/ getFileExtension(files[id].original_name)
                                     = toLowerCase(req.filterType))
  IN  IF req.session = NoSession THEN ListError(401)
      ELSE IF queryFails THEN ListError(500)
      ELSE [status |-> 200, files |-> filteredFiles, totalCount |-> Len(filteredFiles),
            currentPage |-> req.page, totalPages |-> total_pages]

GetFiles ==
  /\ \E session \in {ListUser, NoSession}, page \in 1..MaxPage, pageSize \in 1..MaxPageSize,
        sortOrder \in SortOrderPool, filterStatus \in FilterStatusPool,
        filterType \in FilterTypePool, queryFails \in BOOLEAN :
       LET req == [session |-> session, page |-> page, pageSize |-> pageSize,
                   sortOrder |-> sortOrder, filterStatus |-> filterStatus,
                   filterType |-> filterType]
       IN  /\ listRequest' = req
           /\ listResponse' = ListFilesResult(req, queryFails)
  /\ UNCHANGED otherThanList

(***************************************************************************)
(* AuthProvider: fetchSession, refreshSession, signIn, signOut.            *)
(***************************************************************************)
\* What a request to /api/auth/session can come back with: a session of a
\* user, a body without a user, 401, another error status, or a thrown error.
SessionResponses ==
  {[kind |-> "ok", user |-> u] : u \in Users \cup {Null}} \cup
  {[kind |-> "unauthorized", user |-> Null], [kind |-> "error", user |-> Null],
   [kind |-> "throws", user |-> Null]}

NoAuthOp == [op |-> "none", requested |-> FALSE, response |-> [kind |-> "none", user |-> Null]]

AuthInit ==
  /\ authUser = Null
  /\ authSession = Null
  /\ isLoading = TRUE
  /\ fetchFailed = FALSE
  /\ hasAttemptedFetch = FALSE
  /\ sessionFetches = 0
  /\ authPending = "none"
  /\ authLastOp = NoAuthOp

\* fetchSession up to its await, as created by the render in which fetchFailed
\* had the value closureFetchFailed: either it returns at once or it sends the
\* request.
FetchSessionStart(closureFetchFailed, caller, loadingBefore) ==
  IF closureFetchFailed
    THEN /\ isLoading' = FALSE
         /\ authPending' = "none"
         /\ UNCHANGED sessionFetches
    ELSE /\ isLoading' = loadingBefore
         /\ authPending' = caller
         /\ sessionFetches' = sessionFetches + 1

\* useEffect: if (!hasAttemptedFetch.current) fetchSession()
FetchSessionOnMount ==
  /\ ~hasAttemptedFetch
  /\ authPending = "none"
  /\ sessionFetches < MaxSessionFetches
  /\ FetchSessionStart(fetchFailed, "fetchSession", isLoading)
  /\ authLastOp' = [NoAuthOp EXCEPT !.op = "fetchSession", !.requested = ~fetchFailed]
  /\ UNCHANGED <<authUser, authSession, fetchFailed, hasAttemptedFetch>>
  /\ UNCHANGED otherThanAuth

\* refreshSession: setFetchFailed(false); setIsLoading(true); await
\* fetchSession().  The fetchSession it calls is the callback of the current
\* render, which reads the fetchFailed of that render.
refreshSession ==
  /\ authPending = "none"
  /\ sessionFetches < MaxSessionFetches
  /\ fetchFailed' = FALSE
  /\ FetchSessionStart(fetchFailed, "refreshSession", TRUE)
  /\ authLastOp' = [NoAuthOp EXCEPT !.op = "refreshSession", !.requested = ~fetchFailed]
  /\ UNCHANGED <<authUser, authSession, hasAttemptedFetch>>
  /\ UNCHANGED otherThanAuth

\* fetchSession after its await: the response, the catch and the finally.
FetchSessionResolve ==
  /\ authPending # "none"
  /\ \E response \in SessionResponses :
       /\ authSession' = IF response.kind = "ok" THEN response.user ELSE Null
       /\ authUser' = IF response.kind = "ok" THEN response.user ELSE Null
       /\ fetchFailed' = IF response.kind \in {"error", "throws"} THEN TRUE ELSE fetchFailed
       /\ authLastOp' = [op |-> "resolved", requested |-> TRUE, response |-> response]
  /\ hasAttemptedFetch' = TRUE
  /\ isLoading' = FALSE
  /\ authPending' = "none"
  /\ UNCHANGED sessionFetches
  /\ UNCHANGED otherThanAuth

\* signIn with the response of /api/auth/login: a user, a rejection or a throw.
signIn ==
  /\ authPending = "none"
  /\ \E outcome \in Users \cup {"rejected"} :
       /\ authUser' = IF outcome \in Users THEN outcome ELSE authUser
       /\ authSession' = IF outcome \in Users THEN outcome ELSE authSession
       /\ fetchFailed' = IF outcome \in Users THEN FALSE ELSE fetchFailed
       /\ authLastOp' = [NoAuthOp EXCEPT !.op = "signIn"]
  /\ isLoading' = FALSE
  /\ UNCHANGED <<hasAttemptedFetch, sessionFetches, authPending>>
  /\ UNCHANGED otherThanAuth

\* signOut with the request to /api/auth/logout answered or thrown.
signOut ==
  /\ authPending = "none"
  /\ \E throws \in BOOLEAN :
       /\ authUser' = IF throws THEN authUser ELSE Null
       /\ authSession' = IF throws THEN authSession ELSE Null
  /\ authLastOp' = [NoAuthOp EXCEPT !.op = "signOut"]
  /\ isLoading' = FALSE
  /\ UNCHANGED <<fetchFailed, hasAttemptedFetch, sessionFetches, authPending>>
  /\ UNCHANGED otherThanAuth

(***************************************************************************)
(* GET file content: processCSVContent, processTextContent and the route.  *)
(* A content is the sequence of its lines (content.split('\n')); the empty *)
(* content is one empty line.  A line is a list of cells, malformed for    *)
(* the CSV parser (an unclosed quote), or empty.                           *)
(***************************************************************************)
CellsLine(cells) == [kind |-> "cells", cells |-> cells]
MalformedLine == [kind |-> "malformed", cells |-> <<>>]
EmptyLine == [kind |-> "empty", cells |-> <<>>]

LinePool ==
  {CellsLine(<<"a", "b">>), CellsLine(<<"1", "2">>), CellsLine(<<"1">>), MalformedLine,
   EmptyLine}

ContentPool == UNION {[1..n -> LinePool] : n \in 1..MaxLines}

EmptyContent == <<EmptyLine>>

CsvSuffix == <<".", "c", "s", "v">>
ContentSuffix == <<" ", "c", "o", "n", "t", "e", "n", "t">>
ContentNamePool ==
  {<<"a", ".", "c", "s", "v">>, <<"a", ".", "C", "S", "V">>, <<"a", ".", "t", "x", "t">>}

\* String.prototype.endsWith
endsWith(str, suffix) ==
  Len(suffix) <= Len(str) /\ SubSeq(str, Len(str) - Len(suffix) + 1, Len(str)) = suffix

\* for await (const chunk of stream): what the stream still delivers.  A
\* stream that has been read to its end delivers nothing more.
ReadStream(stream) == IF stream.consumed THEN EmptyContent ELSE stream.content

\* parse(content, { columns: true, skip_empty_lines: true, trim: true }): the
\* records after the header line, or a thrown error for a malformed line or a
\* record whose length differs from the header's.
CsvParse(content) ==
  LET lines == SelectSeq(content, LAMBDA l : l.kind # "empty")
  IN  IF \E i \in 1..Len(lines) : lines[i].kind = "malformed"
        THEN [throws |-> TRUE, header |-> <<>>, records |-> <<>>]
      ELSE IF lines = <<>> THEN [throws |-> FALSE, header |-> <<>>, records |-> <<>>]
      ELSE IF \E i \in 2..Len(lines) : Len(lines[i].cells) # Len(lines[1].cells)
        THEN [throws |-> TRUE, header |-> <<>>, records |-> <<>>]
      ELSE [throws |-> FALSE, header |-> lines[1].cells,
            records |-> [i \in 1..(Len(lines) - 1) |-> lines[i + 1].cells]]

processCSVContent(stream) ==
  LET parsed == CsvParse(ReadStream(stream))
  IN  IF parsed.throws
        THEN [isValid |-> FALSE, columns |-> <<>>, firstRow |-> <<>>,
              error |-> "Failed to parse CSV file. File may be malformed."]
      ELSE IF parsed.records = <<>>
        THEN [isValid |-> FALSE, columns |-> <<>>, firstRow |-> <<>>,
              error |-> "CSV file is empty or has no valid records"]
      ELSE [isValid |-> TRUE,
            columns |-> [i \in 1..Len(parsed.header) |->
                           [id |-> ColumnId(i - 1), name |-> <<parsed.header[i]>>,
                            selected |-> FALSE]],
            firstRow |-> parsed.records[1], error |-> Absent]

\* content.split('\n').slice(0, 2).join('\n'), or the caught read error.
processTextContent(stream, readThrows) ==
  IF readThrows
    THEN [content |-> EmptyContent, error |-> "Failed to read text file content"]
    ELSE [content |-> Slice(ReadStream(stream), 0, 2), error |-> Absent]

NoContentRequest == [session |-> NoSession, fileId |-> Absent]

NoContentResponse ==
  [status |-> 0, type |-> Absent, warning |-> Absent, columns |-> <<>>, firstRow |-> <<>>]

ContentError(status) == [NoContentResponse EXCEPT !.status = status]

TextResponse(original_name, warning, content) ==
  [status |-> 200, type |-> "text", warning |-> warning,
   columns |-> <<[id |-> "content-column", name |-> original_name \o ContentSuffix,
                  selected |-> TRUE]>>,
   firstRow |-> <<content>>]

ContentInit ==
  /\ s3Object = EmptyContent
  /\ contentRequest = NoContentRequest
  /\ contentResponse = NoContentResponse

\* GET of the file content route.  The body of the S3 response is one stream:
\* reading it to the end leaves it consumed for the next reader.
FileContentResult(session, fileId, bodyMissing, s3Throws, readThrows) ==
  LET body == [content |-> s3Object, consumed |-> FALSE]
      consumedBody == [body EXCEPT !.consumed = TRUE]
  IN  IF session = NoSession THEN ContentError(401)
      ELSE IF fileId \notin DOMAIN files THEN ContentError(404)
      ELSE IF files[fileId].user_id # session THEN ContentError(403)
      ELSE IF s3Throws THEN ContentError(500)
      ELSE IF bodyMissing THEN ContentError(404)
      ELSE IF endsWith(toLowerCase(files[fileId].original_name), CsvSuffix)
        THEN LET result == processCSVContent(body)
             IN  IF ~result.isValid
                   THEN TextResponse(files[fileId].original_name, result.error,
                                     processTextContent(consumedBody, readThrows).content)
                   ELSE [status |-> 200, type |-> "csv", warning |-> Absent,
                         columns |-> result.columns, firstRow |-> result.firstRow]
      ELSE LET result == processTextContent(body, readThrows)
           IN  IF result.error # Absent THEN ContentError(500)
               ELSE TextResponse(files[fileId].original_name, Absent, result.content)

GetFileContent ==
  /\ \E session \in Users \cup {NoSession}, fileId \in {FileId(1), FileId(2)},
        bodyMissing \in BOOLEAN, s3Throws \in BOOLEAN, readThrows \in BOOLEAN :
       /\ contentRequest' = [session |-> session, fileId |-> fileId]
       /\ contentResponse' = FileContentResult(session, fileId, bodyMissing, s3Throws,
                                               readThrows)
  /\ UNCHANGED otherThanContent

(***************************************************************************)
(* FileUploader: processFiles, uploadFile, retryUpload, removeFile.        *)
(***************************************************************************)
\* maxSizeMB = 100, and the sizes in bytes of the files that are selected.
maxSizeMB == 100
maxSize == maxSizeMB * 1024 * 1024
SizePool == {maxSize, maxSize + 1}

ClientId(n) == IF n = 1 THEN "c-1" ELSE IF n = 2 THEN "c-2" ELSE IF n = 3 THEN "c-3"
               ELSE "c-4"

UploaderUser == "u-1"
UploadFilename == "data.csv"
UploadContentType == "text/csv"

\* The selections of the file dialog and of a drop: the sizes of their files.
FileLists == UNION {[1..n -> SizePool] : n \in 1..MaxSelection}

NoUploadOp == [op |-> "none", id |-> Null, started |-> 0, recordId |-> Null]

UploaderInit ==
  /\ multiple = FALSE
  /\ uploaderFiles = <<>>
  /\ uploaderNextId = 0
  /\ inFlight = {}
  /\ urlRequested = {}
  /\ s3Put = {}
  /\ uploadLastOp = NoUploadOp

\* The FileWithStatus entries processFiles builds for a selection, given the
\* list of the current render.
RECURSIVE NewFiles(_, _, _)
NewFiles(fileList, listed, firstId) ==
  IF fileList = <<>> THEN <<>>
  ELSE IF ~multiple /\ Len(listed) > 0
    THEN NewFiles(Tail(fileList), listed, firstId)
  ELSE <<[id |-> ClientId(firstId), size |-> Head(fileList), progress |-> 0,
          status |-> IF Head(fileList) > maxSize THEN "error" ELSE "pending",
          error |-> IF Head(fileList) > maxSize THEN "File too large" ELSE Absent,
          fileId |-> Absent]>>
         \o NewFiles(Tail(fileList), listed, firstId + 1)

\* A call of uploadFile: the FileWithStatus it was called with, how far it has
\* come, the fileId of the upload-url response, the status it is reporting.
Attempt(fileWithStatus) ==
  [fileWithStatus |-> fileWithStatus, phase |-> "url", dataFileId |-> Null,
   report |-> Absent]

\* prevFiles.map(f => f.id === id ? change(f) : f)
MapFile(list, id, Change(_)) ==
  [i \in 1..Len(list) |-> IF list[i].id = id THEN Change(list[i]) ELSE list[i]]

processFiles(fileList, op) ==
  LET newFiles == NewFiles(fileList, uploaderFiles, uploaderNextId + 1)
      toUpload == SelectSeq(newFiles, LAMBDA f : f.status # "error")
  IN  /\ uploaderNextId + Len(fileList) <= MaxClientFiles
      /\ uploaderNextId' = uploaderNextId + Len(newFiles)
      /\ uploaderFiles' = IF newFiles = <<>> THEN uploaderFiles
                          ELSE IF multiple THEN uploaderFiles \o newFiles
                          ELSE newFiles
      /\ inFlight' = inFlight \cup {Attempt(toUpload[i]) : i \in 1..Len(toUpload)}
      /\ uploadLastOp' = [NoUploadOp EXCEPT !.op = op, !.started = Len(toUpload)]
      /\ UNCHANGED <<multiple, urlRequested, s3Put, fileVars>>
      /\ UNCHANGED otherThanUploader

\* handleFileChange: the input element has the multiple attribute of the prop.
handleFileChange ==
  \E fileList \in FileLists :
    /\ multiple \/ Len(fileList) = 1
    /\ processFiles(fileList, "select")

\* handleDrop
handleDrop ==
  \E fileList \in FileLists :
    /\ Len(fileList) > 0
    /\ processFiles(fileList, "drop")

\* uploadFile up to the response of the upload-url route.
UploadRequestUrl ==
  \E attempt \in inFlight :
    /\ attempt.phase = "url"
    /\ Cardinality(DOMAIN files) < MaxUploadRecords
    /\ \E session \in {UploaderUser, NoSession}, requestThrows \in BOOLEAN :
         LET f == attempt.fileWithStatus
             result == UploadUrlResult(session, UploadFilename, UploadContentType,
                                       DefaultPrefix, FALSE, FALSE)
             ok == ~requestThrows /\ result.response.success
             SetUploading(e) == [e EXCEPT !.status = "uploading"]
             SetProgress(e) == [e EXCEPT !.status = "uploading", !.progress = 10,
                                         !.fileId = result.response.fileId]
             Respond(e) == IF ok THEN SetProgress(e) ELSE SetUploading(e)
         IN  /\ urlRequested' = urlRequested \cup {[id |-> f.id, size |-> f.size]}
             /\ IF requestThrows THEN UNCHANGED fileVars
                ELSE /\ files' = result.files
                     /\ fileResponse' = result.response
                     /\ fileRequest' = [route |-> "upload-url", session |-> session,
                                        fileId |-> Absent,
                                        body |-> [filename |-> UploadFilename,
                                                  contentType |-> UploadContentType,
                                                  prefix |-> DefaultPrefix]]
             /\ uploaderFiles' = MapFile(uploaderFiles, f.id, Respond)
             /\ inFlight' = (inFlight \ {attempt}) \cup
                  {IF ok THEN [attempt EXCEPT !.phase = "put",
                                              !.dataFileId = result.response.fileId]
                         ELSE [attempt EXCEPT !.phase = "catch"]}
             /\ uploadLastOp' = [NoUploadOp EXCEPT !.op = "requestUrl", !.id = f.id]
    /\ UNCHANGED <<multiple, uploaderNextId, s3Put>>
    /\ UNCHANGED otherThanUploader

\* uploadFile: the PUT of the file to the pre-signed URL.
UploadPutToS3 ==
  \E attempt \in inFlight :
    /\ attempt.phase = "put"
    /\ \E outcome \in {"ok", "notOk", "throws"} :
         inFlight' = (inFlight \ {attempt}) \cup
           {IF outcome = "ok" THEN [attempt EXCEPT !.phase = "report", !.report = "uploaded"]
            ELSE IF outcome = "notOk"
              THEN [attempt EXCEPT !.phase = "report", !.report = "failed"]
            ELSE [attempt EXCEPT !.phase = "catch"]}
    /\ s3Put' = s3Put \cup {[id |-> attempt.fileWithStatus.id,
                             size |-> attempt.fileWithStatus.size]}
    /\ uploadLastOp' = [NoUploadOp EXCEPT !.op = "putToS3", !.id = attempt.fileWithStatus.id]
    /\ UNCHANGED <<multiple, uploaderFiles, uploaderNextId, urlRequested, fileVars>>
    /\ UNCHANGED otherThanUploader

\* updateFileStatus: the PATCH to the status route, served or failing on the
\* way; it throws unless the response is ok with success.
UpdateFileStatus(session, requestThrows, fileId, status, error_message) ==
  LET result == StatusPatchResult(session, fileId, status, error_message)
  IN  IF requestThrows THEN [served |-> FALSE, throws |-> TRUE, result |-> result]
      ELSE [served |-> TRUE, throws |-> ~result.response.success, result |-> result]

\* The status route has handled the PATCH, or it never arrived.
StatusRouteServes(update, session, fileId) ==
  IF update.served
    THEN /\ files' = update.result.files
         /\ fileResponse' = update.result.response
         /\ fileRequest' = [route |-> "status", session |-> session, fileId |-> fileId,
                            body |-> NoUploadBody]
    ELSE UNCHANGED fileVars

\* uploadFile: updateFileStatus(data.fileId, ...) after the PUT, and on
\* success the update of the list.
UploadReportStatus ==
  \E attempt \in inFlight :
    /\ attempt.phase = "report"
    /\ \E session \in {UploaderUser}, requestThrows \in BOOLEAN :
         LET f == attempt.fileWithStatus
             update == UpdateFileStatus(session, requestThrows, attempt.dataFileId,
                                        attempt.report,
                                        IF attempt.report = "failed"
                                          THEN "Failed to upload to S3" ELSE Absent)
             succeeded == attempt.report = "uploaded" /\ ~update.throws
             Succeed(e) == [f EXCEPT !.status = "success", !.progress = 100,
                                     !.fileId = attempt.dataFileId]
         IN  /\ StatusRouteServes(update, session, attempt.dataFileId)
             /\ IF succeeded
                  THEN /\ uploaderFiles' = MapFile(uploaderFiles, f.id, Succeed)
                       /\ inFlight' = inFlight \ {attempt}
                       /\ uploadLastOp' = [NoUploadOp EXCEPT !.op = "attemptEnded",
                                                            !.id = f.id,
                                                            !.recordId = attempt.dataFileId]
                  ELSE /\ UNCHANGED uploaderFiles
                       /\ inFlight' = (inFlight \ {attempt})
                                        \cup {[attempt EXCEPT !.phase = "catch"]}
                       /\ uploadLastOp' = [NoUploadOp EXCEPT !.op = "reportStatus",
                                                            !.id = f.id]
    /\ UNCHANGED <<multiple, uploaderNextId, urlRequested, s3Put>>
    /\ UNCHANGED otherThanUploader

\* uploadFile: the catch block.  It works on the fileWithStatus the call was
\* made with, not on the entry of the list.
UploadCatch ==
  \E attempt \in inFlight :
    /\ attempt.phase = "catch"
    /\ \E session \in {UploaderUser}, requestThrows \in BOOLEAN :
         LET f == attempt.fileWithStatus
             ErrorFile(e) == [f EXCEPT !.status = "error", !.error = "Upload failed"]
             update == UpdateFileStatus(session, requestThrows, f.fileId, "failed",
                                        "Upload failed")
         IN  /\ uploaderFiles' = MapFile(uploaderFiles, f.id, ErrorFile)
             /\ IF f.fileId # Absent
                  THEN StatusRouteServes(update, session, f.fileId)
                  ELSE /\ session = UploaderUser
                       /\ ~requestThrows
                       /\ UNCHANGED fileVars
             /\ uploadLastOp' = [NoUploadOp EXCEPT !.op = "attemptEnded", !.id = f.id,
                                                  !.recordId = attempt.dataFileId]
    /\ inFlight' = inFlight \ {attempt}
    /\ UNCHANGED <<multiple, uploaderNextId, urlRequested, s3Put>>
    /\ UNCHANGED otherThanUploader

\* removeFile
removeFile ==
  \E i \in 1..Len(uploaderFiles) :
    /\ uploaderFiles' = SelectSeq(uploaderFiles, LAMBDA f : f.id # uploaderFiles[i].id)
    /\ uploadLastOp' = [NoUploadOp EXCEPT !.op = "removeFile", !.id = uploaderFiles[i].id]
    /\ UNCHANGED <<multiple, uploaderNextId, inFlight, urlRequested, s3Put, fileVars>>
    /\ UNCHANGED otherThanUploader

\* retryUpload, offered for every entry with status error.
retryUpload ==
  \E i \in 1..Len(uploaderFiles) :
    LET fileWithStatus == uploaderFiles[i]
        Reset(e) == [e EXCEPT !.status = "pending", !.progress = 0, !.error = Absent]
    IN  /\ fileWithStatus.status = "error"
        /\ uploaderFiles' = MapFile(uploaderFiles, fileWithStatus.id, Reset)
        /\ inFlight' = inFlight \cup {Attempt(Reset(fileWithStatus))}
        /\ uploadLastOp' = [NoUploadOp EXCEPT !.op = "retryUpload",
                                             !.id = fileWithStatus.id, !.started = 1]
        /\ UNCHANGED <<multiple, uploaderNextId, urlRequested, s3Put, fileVars>>
        /\ UNCHANGED otherThanUploader

(***************************************************************************)
(* The Create Message modal around the Message Constructor.                *)
(***************************************************************************)
NoFileContent == [type |-> "none", columns |-> <<>>, firstRow |-> Absent]

\* What the file content route answers for a CSV file and for a text file.
CsvFileContent ==
  [type |-> "csv",
   columns |-> <<[id |-> "col-0", name |-> <<"A", "b">>, selected |-> FALSE,
                  order |-> NoOrder, preface |-> "", closing |-> ""],
                 [id |-> "col-1", name |-> <<"b", "a">>, selected |-> FALSE,
                  order |-> NoOrder, preface |-> "", closing |-> ""]>>,
   firstRow |-> "row"]

TextFileContent ==
  [type |-> "text",
   columns |-> <<[id |-> "content-column", name |-> <<"a", "b">>, selected |-> TRUE,
                  order |-> NoOrder, preface |-> "", closing |-> ""]>>,
   firstRow |-> "row"]

FileContentPool == {CsvFileContent, TextFileContent}

\* The user of the browser the modal runs in.
ModalUser == "u-1"

NoTemplateConfig ==
  [type |-> "none", intro |-> "", conclusion |-> "", columns |-> <<>>, firstRow |-> Absent]

ModalInit ==
  /\ fileContent = NoFileContent
  /\ templateConfig = NoTemplateConfig
  /\ templateName = ""
  /\ selectedFolderId = Null
  /\ modalOutcome = "none"

\* handleConfigUpdate: the Config of the constructor as a TemplateConfig.
handleConfigUpdate(cols, intro, concl, content) ==
  [type |-> "txt", intro |-> intro, conclusion |-> concl,
   columns |-> selectedColumns(cols), firstRow |-> content.firstRow]

\* The effect that reports the configuration after a change of the store.
ConfigUpdated ==
  templateConfig' = handleConfigUpdate(columns', introduction', conclusion', fileContent')

\* A file is chosen, its content fetched, and the constructor mounted on it.
SelectFile ==
  /\ \E content \in FileContentPool :
       /\ fileContent' = content
       /\ columns' = setColumns(content.columns)
  /\ mcLastOp' = NoOp("setColumns")
  /\ UNCHANGED <<introduction, conclusion, searchQuery, debouncedSearchQuery,
                 currentPage, itemsPerPage, isDragging, activeId>>
  /\ ConfigUpdated
  /\ UNCHANGED <<templateName, selectedFolderId, modalOutcome,
                 message_templates, templateRequest, templateResponse>>
  /\ UNCHANGED otherThanModal

ModalStoreFrame ==
  /\ fileContent # NoFileContent
  /\ UNCHANGED <<searchQuery, debouncedSearchQuery, currentPage, itemsPerPage,
                 isDragging, activeId>>
  /\ UNCHANGED <<fileContent, templateName, selectedFolderId, modalOutcome,
                 message_templates, templateRequest, templateResponse>>
  /\ ConfigUpdated
  /\ UNCHANGED otherThanModal

ToggleColumnSelection ==
  /\ \E i \in 1..Len(columns) : columns' = toggleColumnSelection(columns, columns[i].id)
  /\ mcLastOp' = NoOp("store")
  /\ UNCHANGED <<introduction, conclusion>>
  /\ ModalStoreFrame

SelectAllColumns ==
  /\ \E selected \in BOOLEAN : columns' = selectAllColumns(columns, selected)
  /\ mcLastOp' = NoOp("store")
  /\ UNCHANGED <<introduction, conclusion>>
  /\ ModalStoreFrame

\* The preface and closing inputs of a selected column.
UpdateColumnConfig ==
  /\ \E i \in 1..Len(columns), key \in {"preface", "closing"}, value \in AffixPool :
       /\ columns[i].selected
       /\ columns' = updateColumnConfig(columns, columns[i].id, [key |-> key, value |-> value])
  /\ mcLastOp' = NoOp("store")
  /\ UNCHANGED <<introduction, conclusion>>
  /\ ModalStoreFrame

SetIntroduction ==
  /\ \E text \in TextPool : introduction' = text
  /\ mcLastOp' = NoOp("store")
  /\ UNCHANGED <<columns, conclusion>>
  /\ ModalStoreFrame

SetConclusion ==
  /\ \E text \in TextPool : conclusion' = text
  /\ mcLastOp' = NoOp("store")
  /\ UNCHANGED <<columns, introduction>>
  /\ ModalStoreFrame

\* A column is dragged onto another one.
DragColumn ==
  /\ \E i, j \in 1..Len(columns) :
       /\ i # j
       /\ columns' = reorderColumns(columns, columns[i].id, columns[j].id)
       /\ mcLastOp' = [op |-> "reorderColumns", activeId |-> columns[i].id,
                       overId |-> columns[j].id]
  /\ UNCHANGED <<introduction, conclusion>>
  /\ ModalStoreFrame

SetTemplateName ==
  /\ \E name \in {"Welcome"} : templateName' = name
  /\ UNCHANGED <<fileContent, templateConfig, selectedFolderId, modalOutcome,
                 message_templates, templateRequest, templateResponse>>
  /\ UNCHANGED mcVars
  /\ UNCHANGED otherThanModal

\* The body handleSave sends to POST /api/templates/save.
HandleSaveTemplateData ==
  LET type == IF fileContent.type = "text" THEN "txt" ELSE fileContent.type
  IN  [id |-> Absent, name |-> templateName, description |-> "", type |-> type,
       folderId |-> selectedFolderId,
       config |->
         [type |-> type, intro |-> templateConfig.intro,
          conclusion |-> templateConfig.conclusion,
          columns |-> ArrayOf([i \in 1..Len(fileContent.columns) |->
                                 [kind |-> "object", id |-> fileContent.columns[i].id,
                                  name |-> Join(fileContent.columns[i].name),
                                  preface |-> fileContent.columns[i].preface,
                                  closing |-> fileContent.columns[i].closing]]),
          validation |-> [kind |-> "absent", rules |-> ArrayAbsent,
                          allowedValues |-> ArrayAbsent, errorMessage |-> Absent],
          firstRow |-> fileContent.firstRow]]

\* handleSave, with the request it sends handled by the save route.
handleSave ==
  /\ fileContent # NoFileContent
  /\ templateConfig # NoTemplateConfig
  /\ Cardinality(DOMAIN message_templates) < MaxModalSaves
  /\ IF Len(templateName) < 3
       THEN /\ modalOutcome' = "error"
            /\ UNCHANGED <<message_templates, templateRequest, templateResponse>>
       ELSE \E session \in {ModalUser, NoSession}, upsertFails \in BOOLEAN :
              LET result == TemplateSaveResult(session, HandleSaveTemplateData, upsertFails)
              IN  /\ message_templates' = result.templates
                  /\ templateRequest' = [session |-> session, body |-> HandleSaveTemplateData]
                  /\ templateResponse' = result.response
                  /\ modalOutcome' = IF result.response.status = 200 THEN "success"
                                     ELSE "error"
  /\ UNCHANGED <<fileContent, templateConfig, templateName, selectedFolderId>>
  /\ UNCHANGED mcVars
  /\ UNCHANGED otherThanModal

(***************************************************************************)
(* GET /api/folders and buildFolderTree.                                   *)
(***************************************************************************)
NoTreeRequest == [session |-> NoSession, folders |-> << >>]
NoTreeResponse == [status |-> 0, success |-> FALSE, folders |-> << >>]
TreeError(status) == [NoTreeResponse EXCEPT !.status = status]

TreeInit ==
  /\ treeRequest = NoTreeRequest
  /\ treeResponse = NoTreeResponse

\* The tables POST /api/folders can have filled: every name passes the schema,
\* and the parent of a folder is null or a folder that the same user created
\* before.
StoredFolderNames == {"Archive", "Reports"}
FolderTables ==
  UNION {{t \in [{FolderId(k) : k \in 1..n} ->
                   [user_id : Users, name : StoredFolderNames,
                    parent_folder_id : {Null} \cup FolderIds]] :
            \A k \in 1..n :
              t[FolderId(k)].parent_folder_id # Null =>
                \E m \in 1..(k - 1) :
                  /\ t[FolderId(k)].parent_folder_id = FolderId(m)
                  /\ t[FolderId(m)].user_id = t[FolderId(k)].user_id}
         : n \in 0..MaxFolders}

\* The position of a folder name in the order of the name column.
NameRank(name) == IF name = "Archive" THEN 1 ELSE 2

\* A row of template_folders as select('*') returns it.
FolderRow(id) ==
  [id |-> id, user_id |-> template_folders[id].user_id,
   name |-> template_folders[id].name,
   parent_folder_id |-> template_folders[id].parent_folder_id]

\* .eq('user_id', userId).order('name'): the rows of the user in every order
\* that is ascending by name; rows of equal names come in any order.
FolderQueryResults(userId) ==
  LET ids == {id \in DOMAIN template_folders : template_folders[id].user_id = userId}
      orders == {seq \in [1..Cardinality(ids) -> ids] :
                   /\ \A i, j \in 1..Cardinality(ids) : seq[i] = seq[j] => i = j
                   /\ \A i, j \in 1..Cardinality(ids) :
                        i < j => NameRank(template_folders[seq[i]].name)
                                   <= NameRank(template_folders[seq[j]].name)}
  IN  {[i \in 1..Cardinality(ids) |-> FolderRow(seq[i])] : seq \in orders}

\* Variant: no parent_folder_id counts as set.
IsTruthyNever(value) == FALSE

\* if (folder.parent_folder_id): null and the empty string are falsy.
IsTruthy(value) == value \notin {Null, ""}

\* First pass: folderMap.set(folder.id, {...folder, children: []})
RECURSIVE FirstPass(_, _)
FirstPass(folders, folderMap) ==
  IF folders = << >> THEN folderMap
  ELSE LET folder == Head(folders)
           node == [id |-> folder.id, user_id |-> folder.user_id, name |-> folder.name,
                    parent_folder_id |-> folder.parent_folder_id, children |-> << >>]
       IN  FirstPass(Tail(folders),
                     [id \in DOMAIN folderMap \cup {folder.id} |->
                        IF id = folder.id THEN node ELSE folderMap[id]])

\* Second pass: a folder with a parent_folder_id is pushed to the children of
\* the node of that id when the map has one, a folder without is pushed to
\* rootFolders. The children and rootFolders hold the nodes by their map key.
RECURSIVE SecondPass(_, _, _)
SecondPass(folders, folderMap, rootFolders) ==
  IF folders = << >> THEN [folderMap |-> folderMap, rootFolders |-> rootFolders]
  ELSE LET folder == Head(folders)
       IN  IF folder.id \notin DOMAIN folderMap
             THEN SecondPass(Tail(folders), folderMap, rootFolders)
           ELSE IF IsTruthy(folder.parent_folder_id)
             THEN IF folder.parent_folder_id \in DOMAIN folderMap
                    THEN SecondPass(Tail(folders),
                                    [folderMap EXCEPT ![folder.parent_folder_id].children =
                                                        Append(@, folder.id)],
                                    rootFolders)
                    ELSE SecondPass(Tail(folders), folderMap, rootFolders)
           ELSE SecondPass(Tail(folders), folderMap, Append(rootFolders, folder.id))

\* The node of a map key with the nodes of its children, as the response
\* carries it.
RECURSIVE FolderNode(_, _)
FolderNode(folderMap, id) ==
  [id |-> folderMap[id].id, user_id |-> folderMap[id].user_id,
   name |-> folderMap[id].name, parent_folder_id |-> folderMap[id].parent_folder_id,
   children |-> [i \in 1..Len(folderMap[id].children) |->
                   FolderNode(folderMap, folderMap[id].children[i])]]

buildFolderTree(folders) ==
  LET built == SecondPass(folders, FirstPass(folders, << >>), << >>)
  IN  [i \in 1..Len(built.rootFolders) |-> FolderNode(built.folderMap, built.rootFolders[i])]

\* GET /api/folders
GetFolders ==
  /\ \E session \in Users \cup {NoSession}, queryFails \in BOOLEAN :
       IF session = NoSession
         THEN /\ treeRequest' = [session |-> session, folders |-> << >>]
              /\ treeResponse' = TreeError(401)
       ELSE IF queryFails
         THEN /\ treeRequest' = [session |-> session, folders |-> << >>]
              /\ treeResponse' = TreeError(500)
       ELSE \E folders \in FolderQueryResults(session) :
              /\ treeRequest' = [session |-> session, folders |-> folders]
              /\ treeResponse' = [status |-> 200, success |-> TRUE,
                                  folders |-> buildFolderTree(folders)]
  /\ UNCHANGED otherThanTree

LaterIdle ==
  MiddlewareInit /\ ListInit /\ AuthInit /\ ContentInit /\ UploaderInit /\ TreeInit

AllIdle == SchemaIdle /\ FilesInit /\ FoldersInit /\ TemplatesInit /\ ModalInit /\ LaterIdle

MCIdle == MCInit /\ itemsPerPage = DefaultItemsPerPage

InitReorder == MCIdle /\ AllIdle

NextReorder ==
  \/ InitializeColumns
  \/ handleDragStart
  \/ handleDragEnd
  \/ handleDragCancel
  \/ ReorderColumns

SpecReorder == InitReorder /\ [][NextReorder]_vars

InitBrowse == MCInit /\ itemsPerPage \in ItemsPerPageValues /\ AllIdle

NextBrowse ==
  \/ InitializeColumns
  \/ setSearchQuery
  \/ DebounceTimer
  \/ PreviousPage
  \/ NextPage

SpecBrowse == InitBrowse /\ [][NextBrowse]_vars

InitSchema == MCIdle /\ SchemaInit /\ FilesInit /\ FoldersInit /\ TemplatesInit /\ ModalInit /\ LaterIdle

NextSchema ==
  \/ ParseConfig
  \/ ReparseConfig

SpecSchema == InitSchema /\ [][NextSchema]_vars

InitFiles == MCIdle /\ AllIdle

NextFiles ==
  \/ PostUploadUrl
  \/ PatchFileStatus

SpecFiles == InitFiles /\ [][NextFiles]_vars

InitFolders == MCIdle /\ AllIdle

NextFolders == PostFolder

SpecFolders == InitFolders /\ [][NextFolders]_vars

InitFolderTree ==
  /\ MCIdle /\ SchemaIdle /\ FilesInit /\ TemplatesInit /\ ModalInit /\ LaterIdle
  /\ template_folders \in FolderTables
  /\ folderRequest = NoFolderRequest
  /\ folderResponse = NoFolderResponse

NextFolderTree == GetFolders

SpecFolderTree == InitFolderTree /\ [][NextFolderTree]_vars

\* User u-1 has created the folder f-1.
FoldersWithOne ==
  /\ template_folders = (FolderId(1) :> [user_id |-> "u-1", name |-> "Reports",
                                         parent_folder_id |-> Null])
  /\ folderRequest = [session |-> "u-1", name |-> "Reports", parentFolderId |-> Absent]
  /\ folderResponse = [status |-> 200, success |-> TRUE, folderId |-> FolderId(1)]

InitTemplateRoute ==
  MCIdle /\ SchemaIdle /\ FilesInit /\ FoldersWithOne /\ TemplatesInit /\ ModalInit /\ LaterIdle

NextTemplateRoute == PostTemplateSave

SpecTemplateRoute == InitTemplateRoute /\ [][NextTemplateRoute]_vars

InitTemplateStore ==
  MCIdle /\ SchemaIdle /\ FilesInit /\ FoldersWithOne /\ TemplatesInit /\ ModalInit /\ LaterIdle

NextTemplateStore ==
  \/ createNewTemplate
  \/ updateTemplateName
  \/ updateTemplateConfig
  \/ saveCurrentTemplate

SpecTemplateStore == InitTemplateStore /\ [][NextTemplateStore]_vars

InitModal == MCIdle /\ AllIdle

NextModal ==
  \/ SelectFile
  \/ ToggleColumnSelection
  \/ SelectAllColumns
  \/ UpdateColumnConfig
  \/ SetIntroduction
  \/ SetConclusion
  \/ DragColumn
  \/ SetTemplateName
  \/ handleSave

SpecModal == InitModal /\ [][NextModal]_vars

InitMiddleware == MCIdle /\ AllIdle

NextMiddleware == Middleware

SpecMiddleware == InitMiddleware /\ [][NextMiddleware]_vars

\* The files table holds some records of the user when the list is requested.
InitFilesList ==
  /\ MCIdle /\ SchemaIdle /\ FoldersInit /\ TemplatesInit /\ ModalInit /\ LaterIdle
  /\ files \in ListedTables
  /\ fileRequest = NoFileRequest
  /\ fileResponse = NoFileResponse

NextFilesList == GetFiles

SpecFilesList == InitFilesList /\ [][NextFilesList]_vars

InitAuth == MCIdle /\ AllIdle

NextAuth ==
  \/ FetchSessionOnMount
  \/ refreshSession
  \/ FetchSessionResolve
  \/ signIn
  \/ signOut

SpecAuth == InitAuth /\ [][NextAuth]_vars

\* User u-1 has uploaded the file file-1; its object is in S3.
InitFileContent ==
  /\ MCIdle /\ SchemaIdle /\ FoldersInit /\ TemplatesInit /\ ModalInit
  /\ MiddlewareInit /\ ListInit /\ AuthInit /\ UploaderInit /\ TreeInit
  /\ \E name \in ContentNamePool :
       files = (FileId(1) :> [user_id |-> "u-1", s3_key |-> <<>>, original_name |-> name,
                              status |-> "uploaded", error_message |-> Null])
  /\ fileRequest = NoFileRequest
  /\ fileResponse = NoFileResponse
  /\ s3Object \in ContentPool
  /\ contentRequest = NoContentRequest
  /\ contentResponse = NoContentResponse

NextFileContent == GetFileContent

SpecFileContent == InitFileContent /\ [][NextFileContent]_vars

\* The uploader is mounted with or without the multiple option.
InitUploader ==
  /\ MCIdle /\ SchemaIdle /\ FilesInit /\ FoldersInit /\ TemplatesInit /\ ModalInit
  /\ MiddlewareInit /\ ListInit /\ AuthInit /\ ContentInit /\ TreeInit
  /\ multiple \in BOOLEAN
  /\ uploaderFiles = <<>>
  /\ uploaderNextId = 0
  /\ inFlight = {}
  /\ urlRequested = {}
  /\ s3Put = {}
  /\ uploadLastOp = NoUploadOp

NextUploader ==
  \/ handleFileChange
  \/ handleDrop
  \/ UploadRequestUrl
  \/ UploadPutToS3
  \/ UploadReportStatus
  \/ UploadCatch
  \/ removeFile
  \/ retryUpload

SpecUploader == InitUploader /\ [][NextUploader]_vars

(***************************************************************************)
(* Properties of the Message Constructor store.                            *)
(***************************************************************************)
IdsOf(cols) == [i \in 1..Len(cols) |-> cols[i].id]
IdSet(cols) == {cols[i].id : i \in 1..Len(cols)}
WithoutId(ids, id) == SelectSeq(ids, LAMBDA x : x # id)
PositionOf(cols, id) == CHOOSE i \in 1..Len(cols) : cols[i].id = id

ReorderPost(before, after, a, o) ==
  IF a \in IdSet(before) /\ o \in IdSet(before)
    THEN a # o =>
           /\ Len(after) = Len(before)
           /\ IdSet(after) = IdSet(before)
           /\ \A i, j \in 1..Len(after) : after[i].id = after[j].id => i = j
           /\ after[PositionOf(before, o)].id = a
           /\ WithoutId(IdsOf(after), a) = WithoutId(IdsOf(before), a)
    ELSE after = before

\* C1: reorderColumns(activeId, overId) on distinct present ids keeps the set
\* of column ids, puts activeId at the index overId held before, keeps the
\* relative order of the others; with an absent id the list is unchanged.
C1_ReorderIsStablePermutation ==
  [][mcLastOp'.op = "reorderColumns" =>
       ReorderPost(columns, columns', mcLastOp'.activeId, mcLastOp'.overId)]_vars

\* A three-column list in which the moved column went from the front part to
\* the last index, the index the target held.
C1_Witness ==
  /\ mcLastOp.op = "reorderColumns"
  /\ Len(columns) = 3
  /\ mcLastOp.activeId \in IdSet(columns)
  /\ mcLastOp.overId \in IdSet(columns)
  /\ mcLastOp.activeId # mcLastOp.overId
  /\ columns[3].id = mcLastOp.activeId
  /\ columns[2].id = mcLastOp.overId

RECURSIVE ConcatPages(_, _, _)
ConcatPages(list, perPage, upTo) ==
  IF upTo = 0 THEN <<>>
  ELSE ConcatPages(list, perPage, upTo - 1) \o paginatedColumns(list, upTo, perPage)

PagesPartition(list, perPage) ==
  LET tp == totalPages(list, perPage)
      Page(p) == paginatedColumns(list, p, perPage)
      OnPage(item, p) == \E j \in 1..Len(Page(p)) : Page(p)[j] = item
  IN  /\ ConcatPages(list, perPage, tp) = list
      /\ \A i \in 1..Len(list) :
           Cardinality({p \in 1..tp : OnPage(list[i], p)}) = 1
      /\ \A p \in 1..(tp - 1) :
           /\ Page(p) # <<>>
           /\ Page(p + 1) # <<>>
           /\ PositionOf(list, Page(p + 1)[1].id)
                = PositionOf(list, Page(p)[Len(Page(p))].id) + 1

\* C2: for a fixed filtered list and itemsPerPage the pages 1..totalPages
\* partition the list: each item is on exactly one page, adjacent pages
\* neither overlap nor skip, and the pages concatenated give the list.
C2_PagesPartitionFilteredList ==
  /\ PagesPartition(sortedAndFilteredColumns(columns, debouncedSearchQuery), itemsPerPage)
  /\ PagesPartition(filteredColumns(columns, debouncedSearchQuery), itemsPerPage)

\* Three filtered columns at two per page, the second (short) page shown.
C2_Witness ==
  /\ itemsPerPage = 2
  /\ Len(sortedAndFilteredColumns(columns, debouncedSearchQuery)) = 3
  /\ currentPage = 2
  /\ Len(paginatedColumns(sortedAndFilteredColumns(columns, debouncedSearchQuery),
                          currentPage, itemsPerPage)) = 1

\* name, lower-cased, contains query, lower-cased, at some position.
ContainsIgnoringCase(name, query) ==
  \E i \in 1..(Len(name) + 1) :
    /\ i + Len(query) - 1 <= Len(name)
    /\ \A j \in 1..Len(query) :
         toLowerCaseChar(name[i + j - 1]) = toLowerCaseChar(query[j])

FilterPost(all, filtered, query) ==
  /\ {filtered[i] : i \in 1..Len(filtered)}
       = {all[i] : i \in 1..Len(all)} \cap
         {c \in {all[i] : i \in 1..Len(all)} : ContainsIgnoringCase(c.name, query)}
  /\ \A i, j \in 1..Len(filtered) :
       i < j => PositionOf(all, filtered[i].id) < PositionOf(all, filtered[j].id)
  /\ query = <<>> => filtered = all

\* C3: the filtered list holds exactly the columns whose lower-cased name
\* contains the lower-cased debounced query, in their unfiltered order; an
\* empty query gives the full list.
C3_FilterIsCaseInsensitiveSubstring ==
  /\ FilterPost(SortByOrder(columns),
                sortedAndFilteredColumns(columns, debouncedSearchQuery),
                debouncedSearchQuery)
  /\ FilterPost(columns, filteredColumns(columns, debouncedSearchQuery),
                debouncedSearchQuery)

\* A mixed-case query that keeps some columns and drops others.
C3_Witness ==
  /\ debouncedSearchQuery = <<"a", "B">>
  /\ Len(columns) = 3
  /\ Len(sortedAndFilteredColumns(columns, debouncedSearchQuery)) = 2
  /\ sortedAndFilteredColumns(columns, debouncedSearchQuery)[1].name = <<"A", "b">>

(***************************************************************************)
(* Properties of the template schema.                                      *)
(***************************************************************************)
IsString(x) == x \notin {Absent, Undefined, NotAString, Invalid}

DefaultsFilled(cfg) ==
  /\ IsString(cfg.intro)
  /\ IsString(cfg.conclusion)
  /\ cfg.columns.kind = "array"
  /\ \A i \in 1..Len(cfg.columns.items) :
       IsString(cfg.columns.items[i].preface) /\ IsString(cfg.columns.items[i].closing)
  /\ cfg.validation.kind = "object"
  /\ cfg.validation.rules.kind = "array"
  /\ IsString(cfg.validation.errorMessage)

\* C4: validation is idempotent: an accepted value's parsed result p, after
\* serialization, is accepted again and parses to itself, with the defaults
\* for intro, conclusion, preface, closing and validation filled in.
C4_ConfigValidationIdempotent ==
  /\ (parseRound = 1 /\ parsedConfig.ok) =>
       /\ DefaultsFilled(parsedConfig.value)
       /\ templateConfigSchema(parsedConfig.value) = parsedConfig
  /\ parseRound = 2 =>
       /\ parsedConfig.ok
       /\ parsedConfig.value = rawConfig
       /\ DefaultsFilled(parsedConfig.value)

\* A value that relied on every default was parsed, serialized and parsed again.
C4_Witness ==
  /\ parseRound = 2
  /\ parsedConfig.ok
  /\ parsedConfig.value.intro = ""
  /\ parsedConfig.value.conclusion = ""
  /\ parsedConfig.value.validation = ValidationDefault
  /\ Len(parsedConfig.value.columns.items) = 1
  /\ parsedConfig.value.columns.items[1].preface = ""
  /\ parsedConfig.value.columns.items[1].closing = ""

(***************************************************************************)
(* Properties of the file records.                                         *)
(***************************************************************************)
\* export type FileStatus
FileStatus == {"uploaded", "processing", "completed", "failed"}

\* C7: every file record, from its creation onwards, has a status that is
\* one of uploaded, processing, completed or failed.
C7_StatusIsAFileStatus ==
  \A id \in DOMAIN files : files[id].status \in FileStatus

\* C8: a record is created when an upload URL is issued, its status changes
\* only on a reported upload outcome, and once uploaded or failed has been
\* recorded no later request changes its status or error message.
C8_RecordedOutcomeIsFinal ==
  [][/\ \A id \in DOMAIN files' \ DOMAIN files :
          fileRequest'.route = "upload-url" /\ fileResponse'.fileId = id
     /\ \A id \in DOMAIN files :
          /\ id \in DOMAIN files'
          /\ files'[id].status # files[id].status =>
               fileRequest'.route = "status" /\ fileRequest'.fileId = id
          /\ files[id].status \in {"uploaded", "failed"} =>
               /\ files'[id].status = files[id].status
               /\ files'[id].error_message = files[id].error_message]_vars

\* C9: user_id is set at creation to the authenticated user who asked for the
\* upload URL, no operation changes it, and a status PATCH by a user other
\* than the owner changes no field of the record.
C9_FileHasOneOwner ==
  [][/\ \A id \in DOMAIN files' \ DOMAIN files :
          /\ fileRequest'.route = "upload-url"
          /\ fileRequest'.session \in Users
          /\ files'[id].user_id = fileRequest'.session
     /\ \A id \in DOMAIN files :
          id \in DOMAIN files' /\ files'[id].user_id = files[id].user_id
     /\ \A id \in DOMAIN files :
          (/\ fileRequest'.route = "status"
           /\ fileRequest'.fileId = id
           /\ fileRequest'.session # files[id].user_id) => files'[id] = files[id]]_vars

\* Another user's well-formed PATCH for an existing record matched no row.
C9_Witness ==
  /\ fileRequest.route = "status"
  /\ fileRequest.session \in Users
  /\ fileRequest.fileId \in DOMAIN files
  /\ files[fileRequest.fileId].user_id # fileRequest.session
  /\ fileResponse.status = 500
  /\ files[fileRequest.fileId].status = "uploading"

(***************************************************************************)
(* Properties of the folders.                                              *)
(***************************************************************************)
\* C10: a folder created with a parentFolderId has an existing parent of the
\* same user; when the named parent is missing or belongs to another user the
\* answer is 404 and no folder is inserted.
C10_ParentBelongsToSameUser ==
  [][/\ \A id \in DOMAIN template_folders' :
          template_folders'[id].parent_folder_id # Null =>
            /\ template_folders'[id].parent_folder_id \in DOMAIN template_folders'
            /\ template_folders'[template_folders'[id].parent_folder_id].user_id
                 = template_folders'[id].user_id
     /\ (/\ folderRequest'.session \in Users
         /\ folderRequest'.name = "Reports"
         /\ folderRequest'.parentFolderId \in FolderIds \cup {MissingFolderId}
         /\ \/ folderRequest'.parentFolderId \notin DOMAIN template_folders
            \/ template_folders[folderRequest'.parentFolderId].user_id
                 # folderRequest'.session)
        => /\ folderResponse'.status = 404
           /\ template_folders' = template_folders]_vars

\* A nested folder exists and a request naming another user's folder as the
\* parent was answered 404.
C10_Witness ==
  /\ \E id \in DOMAIN template_folders : template_folders[id].parent_folder_id # Null
  /\ folderResponse.status = 404
  /\ folderRequest.parentFolderId \in DOMAIN template_folders
  /\ template_folders[folderRequest.parentFolderId].user_id # folderRequest.session

(***************************************************************************)
(* Properties of the templates.                                            *)
(***************************************************************************)
\* C5: every template accepted by templateSchema and written to
\* message_templates has config.type equal to its top-level type.
C5_ConfigTypeMatchesType ==
  \A id \in DOMAIN message_templates :
    message_templates[id].config.type = message_templates[id].type

\* The columns of a persisted config are the given constructor columns, in
\* their order, each with its preface and closing.
PersistedColumnsAre(items, cols) ==
  /\ Len(items) = Len(cols)
  /\ \A i \in 1..Len(cols) :
       /\ items[i].name = Join(cols[i].name)
       /\ items[i].preface = cols[i].preface
       /\ items[i].closing = cols[i].closing

\* C6: the template persisted by the Create Message modal holds what the user
\* built in the constructor: the selected columns in the user's order with
\* their preface and closing, and the entered introduction and conclusion.
C6_PersistedTemplateIsBuiltConfig ==
  [][(modalOutcome' = "success" /\ message_templates' # message_templates) =>
       LET saved == message_templates'[templateResponse'.templateId].config
       IN  /\ saved.intro = introduction
           /\ saved.conclusion = conclusion
           /\ PersistedColumnsAre(saved.columns.items, selectedColumns(columns))]_vars

(***************************************************************************)
(* Properties of the authentication middleware.                            *)
(***************************************************************************)
BeginsWithProtectedRoute(path) ==
  \E route \in PROTECTED_ROUTES :
    /\ Len(route) <= Len(path)
    /\ \A i \in 1..Len(route) : path[i] = route[i]

\* C11: a request whose pathname begins with a protected route and that
\* carries no session is answered with a redirect to /login whose redirectTo
\* is the requested pathname, and is never passed through.
C11_ProtectedRequestRedirected ==
  (BeginsWithProtectedRoute(mwRequest.pathname) /\ mwRequest.session = NoSession) =>
    mwResponse = [kind |-> "redirect", pathname |-> LoginPath,
                  redirectTo |-> mwRequest.pathname]

(***************************************************************************)
(* Properties of the template save route.                                  *)
(***************************************************************************)
\* C12: a save request by an authenticated user that carries the id of an
\* existing template owned by a different user leaves that template
\* unchanged (user_id, name, type, folder and config keep their values).
C12_OtherUsersTemplateUnchanged ==
  [][\A id \in DOMAIN message_templates :
       (/\ templateRequest'.body.id = id
        /\ templateRequest'.session # NoSession
        /\ templateRequest'.session # message_templates[id].user_id)
         => (id \in DOMAIN message_templates'
               /\ message_templates'[id] = message_templates[id])]_vars

FolderGiven(body) == body.folderId \notin {Absent, Undefined, Null}

FolderOfCaller(session, body) ==
  /\ body.folderId \in DOMAIN template_folders
  /\ template_folders[body.folderId].user_id = session

SaveChecksInOrder(session, body, response) ==
  /\ session = NoSession => response.status = 401
  /\ (session # NoSession /\ ~templateSchema(body).ok) => response.status = 400
  /\ (session # NoSession /\ templateSchema(body).ok /\ FolderGiven(body)
        /\ ~FolderOfCaller(session, body)) => response.status = 404
  /\ response.status = 400 => session # NoSession
  /\ response.status = 404 => (session # NoSession /\ templateSchema(body).ok)

UploadUrlRejected(response) ==
  /\ response.status # 200
  /\ ~response.success
  /\ response.url = FALSE
  /\ files' = files

\* C14: the upload-url route answers success with a URL only when it has
\* inserted a record with the returned fileId, the caller's user id and the
\* returned key; an unauthenticated caller gets 401, a missing filename or
\* contentType 400, a key outside the allowed prefixes 400, and every request
\* that is not answered with success creates no record and receives no URL.
C14_UrlOnlyWithInsertedRecord ==
  [][fileRequest'.route = "upload-url" =>
       LET session == fileRequest'.session
           body == fileRequest'.body
           fieldsMissing == body.filename = Absent \/ body.contentType = Absent
           outsidePrefixes == body.prefix.segs[1] \notin {"uploads", "processed"}
       IN  /\ (fileResponse'.success \/ fileResponse'.url = TRUE) =>
                /\ session # NoSession
                /\ fileResponse'.fileId \notin DOMAIN files
                /\ DOMAIN files' = DOMAIN files \cup {fileResponse'.fileId}
                /\ files'[fileResponse'.fileId].user_id = session
                /\ files'[fileResponse'.fileId].s3_key = fileResponse'.key
                /\ \A id \in DOMAIN files : files'[id] = files[id]
           /\ ~fileResponse'.success => UploadUrlRejected(fileResponse')
           /\ session = NoSession => fileResponse'.status = 401
           /\ (session # NoSession /\ fieldsMissing) => fileResponse'.status = 400
           /\ (session # NoSession /\ ~fieldsMissing /\ outsidePrefixes) =>
                fileResponse'.status = 400]_vars

\* The second record was inserted for a request without a trailing slash in
\* its prefix, and the URL was returned for it.
C14_Witness ==
  /\ fileRequest.route = "upload-url"
  /\ fileRequest.body.prefix = [segs |-> <<"uploads">>, slash |-> FALSE]
  /\ fileResponse.success
  /\ fileResponse.url = TRUE
  /\ Cardinality(DOMAIN files) = 2
  /\ files[fileResponse.fileId].s3_key = fileResponse.key
  /\ files[fileResponse.fileId].user_id = fileRequest.session

(***************************************************************************)
(* Properties of the file list route.                                      *)
(***************************************************************************)
\* The files of the user that match the status and type filters, on any page.
MatchingFiles(user, filterStatus, filterType) ==
  {id \in DOMAIN files :
     /\ files[id].user_id = user
     /\ filterStatus = Absent \/ files[id].status = filterStatus
     /\ filterType = Absent
          \/ getFileExtension(files[id].original_name) = toLowerCase(filterType)}

\* "Showing a to b of totalCount" as FileControls renders it.
ShowingFrom(response, pageSize) ==
  IF response.totalCount = 0 THEN 0 ELSE (response.currentPage - 1) * pageSize + 1
ShowingTo(response, pageSize) == Min(response.currentPage * pageSize, response.totalCount)

\* C15: a successful GET /api/files returns totalCount equal to the number of
\* the user's files matching the status and type filters over all pages, and
\* totalPages = ceil(totalCount / pageSize), so that the range text satisfies
\* a <= b <= totalCount when totalCount > 0.
C15_TotalCountCountsAllMatches ==
  listResponse.status = 200 =>
    /\ listResponse.totalCount
         = Cardinality(MatchingFiles(listRequest.session, listRequest.filterStatus,
                                     listRequest.filterType))
    /\ listResponse.totalPages = Ceil(listResponse.totalCount, listRequest.pageSize)
    /\ listResponse.totalCount > 0 =>
         /\ ShowingFrom(listResponse, listRequest.pageSize)
              <= ShowingTo(listResponse, listRequest.pageSize)
         /\ ShowingTo(listResponse, listRequest.pageSize) <= listResponse.totalCount

(***************************************************************************)
(* Properties of the AuthProvider.                                         *)
(***************************************************************************)
\* C16: refreshSession resets the fetch-failed flag and then sends a new
\* request to /api/auth/session, also when an earlier fetch had failed; when
\* that request resolves, user and session are those of its response and
\* isLoading is false.
C16_RefreshSendsNewRequest ==
  [][/\ authLastOp'.op = "refreshSession" =>
          /\ fetchFailed' = FALSE
          /\ sessionFetches' = sessionFetches + 1
          /\ authPending' = "refreshSession"
     /\ (authPending = "refreshSession" /\ authLastOp'.op = "resolved") =>
          /\ authUser' = (IF authLastOp'.response.kind = "ok"
                            THEN authLastOp'.response.user ELSE Null)
          /\ authSession' = authUser'
          /\ isLoading' = FALSE]_vars

(***************************************************************************)
(* Properties of the file content route.                                   *)
(***************************************************************************)
\* The content cannot be parsed as CSV or yields no records.
NotUsableAsCsv(content) == CsvParse(content).throws \/ CsvParse(content).records = <<>>

FirstTwoLines(content) == SubSeq(content, 1, Min(2, Len(content)))

\* C17: for a file named *.csv whose content cannot be parsed as CSV or
\* yields no records, a successful response of the content route has type
\* 'text', a warning, one pre-selected column named '<original name> content'
\* and a firstRow holding the first two lines of the file's content.
C17_MalformedCsvFallsBackToText ==
  (/\ contentResponse.status = 200
   /\ endsWith(toLowerCase(files[contentRequest.fileId].original_name), CsvSuffix)
   /\ NotUsableAsCsv(s3Object)) =>
    /\ contentResponse.type = "text"
    /\ contentResponse.warning # Absent
    /\ Len(contentResponse.columns) = 1
    /\ contentResponse.columns[1].selected
    /\ contentResponse.columns[1].name
         = files[contentRequest.fileId].original_name \o ContentSuffix
    /\ contentResponse.firstRow = <<FirstTwoLines(s3Object)>>

(***************************************************************************)
(* Properties of the FileUploader.                                         *)
(***************************************************************************)
\* C18: with multiple = false the list of the uploader never holds more than
\* one file, and a selection or drop starts at most one upload, whatever the
\* number of files selected or dropped at once.
C18_SingleFileWhenNotMultiple ==
  ~multiple =>
    /\ Len(uploaderFiles) <= 1
    /\ uploadLastOp.op \in {"select", "drop"} => uploadLastOp.started <= 1

\* C19: a file larger than maxSizeMB is never uploaded: no upload-url request
\* and no S3 PUT is issued for it, after any sequence of select, drop, retry
\* and remove.
C19_OversizeNeverUploaded ==
  \A request \in urlRequested \cup s3Put : request.size <= maxSize

\* C20: when an upload attempt for which the server created a record has
\* ended on the client, with success or with any error, the status of that
\* record is 'uploaded' or 'failed', not the initial 'uploading'.
C20_EndedAttemptLeavesFinalStatus ==
  [][(uploadLastOp'.op = "attemptEnded" /\ uploadLastOp'.recordId # Null) =>
       files'[uploadLastOp'.recordId].status \in {"uploaded", "failed"}]_vars

(***************************************************************************)
(* Properties of GET /api/folders.                                         *)
(***************************************************************************)
\* Every node of a forest: each tree's root followed by the nodes below it.
RECURSIVE NodesOf(_)
NodesOf(forest) ==
  IF forest = << >> THEN << >>
  ELSE <<Head(forest)>> \o NodesOf(Head(forest).children) \o NodesOf(Tail(forest))

Occurrences(forest, id) ==
  Cardinality({i \in 1..Len(NodesOf(forest)) : NodesOf(forest)[i].id = id})

IsRootOf(forest, id) == \E i \in 1..Len(forest) : forest[i].id = id

IsChildOf(forest, id, parentId) ==
  \E i \in 1..Len(NodesOf(forest)) :
    /\ NodesOf(forest)[i].id = parentId
    /\ \E j \in 1..Len(NodesOf(forest)[i].children) :
         NodesOf(forest)[i].children[j].id = id

\* C21: every folder the query of GET /api/folders returned appears exactly
\* once in the forest of the response: among the roots when its
\* parent_folder_id is null, otherwise among the children of the node whose
\* id is its parent_folder_id.
C21_EveryFolderOnceInForest ==
  treeResponse.status = 200 =>
    \A i \in 1..Len(treeRequest.folders) :
      LET folder == treeRequest.folders[i]
      IN  /\ Occurrences(treeResponse.folders, folder.id) = 1
          /\ IF folder.parent_folder_id = Null
               THEN IsRootOf(treeResponse.folders, folder.id)
               ELSE /\ ~IsRootOf(treeResponse.folders, folder.id)
                    /\ IsChildOf(treeResponse.folders, folder.id, folder.parent_folder_id)

\* The query returned a folder ahead of its parent and a folder two levels
\* below a root, and the response carries the forest.
C21_Witness ==
  /\ treeResponse.status = 200
  /\ Len(treeRequest.folders) = 3
  /\ \E i, j \in 1..3 :
       /\ i < j
       /\ treeRequest.folders[i].parent_folder_id = treeRequest.folders[j].id
  /\ \E i, j \in 1..3 :
       /\ treeRequest.folders[i].parent_folder_id = treeRequest.folders[j].id
       /\ treeRequest.folders[j].parent_folder_id # Null
  /\ Len(treeResponse.folders) = 1
  /\ Len(NodesOf(treeResponse.folders)) = 3
====
